---- MODULE Spec2Model ----
(***************************************************************************)
(* NoMerge: the matching and filtering engine of src/src/main.ts.          *)
(*                                                                         *)
(* A string is a sequence of one-character strings, so that the regular    *)
(* expressions the program builds from its inputs can be built, parsed and *)
(* run here character by character, the way the JavaScript engine does.    *)
(***************************************************************************)
EXTENDS Integers, Sequences, FiniteSets, TLC

VARIABLES
    pc,              \* the set of operations that have returned
    filePath,        \* isIgnored: the path argument
    ignorePatterns,  \* isIgnored: the rule list argument
    ignored,         \* isIgnored: the outcome (a value, or a thrown SyntaxError)
    text,            \* containsPattern / findPatternMatches: the text argument
    patterns,        \* containsPattern / findPatternMatches: the pattern list
    caseSensitive,   \* containsPattern / findPatternMatches: the case flag
    contains,        \* containsPattern: the returned boolean
    matches,         \* findPatternMatches: the returned PatternMatch list
    mode,            \* main: "remote" (GitHub Actions) or "local" (CLI)
    step,            \* the run: the step it has reached
    configFile,      \* loadConfig: what fetching .nomerge.config.json gives
    config,          \* loadConfig: the returned NoMergeConfig
    description,     \* checkDescription: pr.body
    listing,         \* what getPullRequestFiles / Deno.readDir(directory) gives
    directory,       \* runCliMode: the root directory
    todo,            \* checkFiles / walk: the entries still to visit
    log,             \* checkFiles / walk: the console lines, one per decision
    fileMatches,     \* checkFiles / checkLocalFiles: the FileMatch list
    foundInDescription,  \* runGitHubActionsMode: the description flag
    result,          \* the CheckResult of the run
    denoArgs,        \* main: Deno.args
    cliOptions,      \* parseCliArgs: the outcome (CliOptions, or a thrown Error)
    env,             \* runGitHubActionsMode: the environment and the event file
    exitCode         \* main: the codes passed to Deno.exit (none, or one)

\* A run reads its parameters from patterns, caseSensitive, ignorePatterns.
runVars == <<mode, step, configFile, config, description, listing, directory, todo,
             log, fileMatches, foundInDescription, result>>

\* What main adds around a run.
mainVars == <<denoArgs, cliOptions, env, exitCode>>

vars == <<pc, filePath, ignorePatterns, ignored, text, patterns, caseSensitive,
          contains, matches, runVars, mainVars>>

----------------------------------------------------------------------------
(* Bounds of the input domains.                                            *)

\* isIgnored: the characters of the path plus, for each rule of the list,
\* one more than the characters of the rule.
MaxIgnoreSize == 5

\* isIgnored with a single rule: the characters of the path plus the
\* characters of the rule.
MaxPairSize == 5

\* containsPattern / findPatternMatches: the characters of the text plus,
\* for each pattern of the list, one more than the characters of the pattern.
MaxScanSize == 7

\* The longest path tried against the longer rules P/** and "./" + p.
MaxFamilyPathLen == 3

\* The entries of a list of changed files, and of a root directory.
MaxFiles == 3

\* The characters of a pull request description.
MaxDescriptionLen == 7

\* A field of the configuration file: one per string, plus its characters.
MaxConfigSize == 3

\* The tokens of a command line.
MaxArgs == 4

\* Characters of paths and ignore rules: a plain letter, the separator, the
\* dot, the two glob wildcards and one character that is glob-literal but a
\* regular-expression quantifier.
PathChars == {"a", "/", ".", "*", "?", "+"}

\* Characters of scanned text and forbidden patterns: a letter in both cases
\* and a regular-expression metacharacter.
TextChars == {"a", "A", "."}

StringsOver(chars, n) == UNION {[1..k -> chars] : k \in 0..n}

\* The lists of strings over chars whose size (one per string, plus its
\* characters) is at most w.
RECURSIVE ListsWithin(_, _)
ListsWithin(chars, w) ==
    IF w <= 0 THEN {<<>>}
    ELSE {<<>>} \cup UNION {{<<p>> \o rest : rest \in ListsWithin(chars, w - 1 - Len(p))} :
                               p \in StringsOver(chars, w - 1)}

----------------------------------------------------------------------------
(* String primitives (ECMAScript String.prototype).                        *)

startsWith(s, prefix) ==
    /\ Len(s) >= Len(prefix)
    /\ SubSeq(s, 1, Len(prefix)) = prefix

slice(s, n) == SubSeq(s, n + 1, Len(s))

Contains(s, sub) ==
    \E i \in 0..(Len(s) - Len(sub)) : SubSeq(s, i + 1, i + Len(sub)) = sub

\* s.replace(/needle/g, repl) for a literal, non-empty needle: leftmost
\* non-overlapping occurrences, the replacement text is not rescanned.
RECURSIVE replaceAll(_, _, _)
replaceAll(s, needle, repl) ==
    IF Len(s) < Len(needle) THEN s
    ELSE IF SubSeq(s, 1, Len(needle)) = needle
         THEN repl \o replaceAll(SubSeq(s, Len(needle) + 1, Len(s)), needle, repl)
         ELSE <<s[1]>> \o replaceAll(Tail(s), needle, repl)

\* The letters and their upper-case forms.
CasePairs ==
    {<<"a", "A">>, <<"b", "B">>, <<"c", "C">>, <<"d", "D">>, <<"e", "E">>,
     <<"f", "F">>, <<"g", "G">>, <<"h", "H">>, <<"i", "I">>, <<"j", "J">>,
     <<"k", "K">>, <<"l", "L">>, <<"m", "M">>, <<"n", "N">>, <<"o", "O">>,
     <<"p", "P">>, <<"q", "Q">>, <<"r", "R">>, <<"s", "S">>, <<"t", "T">>,
     <<"u", "U">>, <<"v", "V">>, <<"w", "W">>, <<"x", "X">>, <<"y", "Y">>,
     <<"z", "Z">>}

ToUpper == [c \in {p[1] : p \in CasePairs} |-> (CHOOSE p \in CasePairs : p[1] = c)[2]]

\* String.prototype.toUpperCase on one character: the canonicalisation the
\* "i" flag applies to both sides of a character comparison.
Canonicalize(c) == IF c \in DOMAIN ToUpper THEN ToUpper[c] ELSE c

----------------------------------------------------------------------------
(* The regular-expression engine (ECMAScript RegExp, no "u" flag), for the *)
(* syntax the program's translations can emit from the characters above:   *)
(* literals, identity escapes, ".", character classes, "^", "$" and the    *)
(* quantifiers "*", "+", "?" with their lazy forms.                        *)

LineTerminators == {"\n", "\r"}
Quantifiers == {"*", "+", "?"}

Atom(neg, set, q) == [k |-> "set", neg |-> neg, set |-> set, q |-> q]
Assertion(k) == [k |-> k, neg |-> FALSE, set |-> {}, q |-> "1"]

SyntaxError == [err |-> TRUE, nodes |-> <<>>]
Parsed(nodes) == [err |-> FALSE, nodes |-> nodes]

\* Index of the first "]" at or after i, 0 when there is none.
RECURSIVE ClassEnd(_, _)
ClassEnd(src, i) ==
    IF i > Len(src) THEN 0
    ELSE IF src[i] = "]" THEN i
    ELSE ClassEnd(src, i + 1)

\* The quantifier that starts at j: its name and the index after it.
QuantifierAt(src, j) ==
    IF j <= Len(src) /\ src[j] \in Quantifiers
    THEN IF j + 1 <= Len(src) /\ src[j + 1] = "?"
         THEN [q |-> src[j] \o "?", next |-> j + 2]
         ELSE [q |-> src[j], next |-> j + 1]
    ELSE [q |-> "1", next |-> j]

RECURSIVE ParseTerms(_, _)

\* An atom that ends before index j, followed by its optional quantifier.
ParseQuantified(src, j, neg, set) ==
    LET qa == QuantifierAt(src, j)
        rest == ParseTerms(src, qa.next)
    IN IF rest.err THEN SyntaxError
       ELSE Parsed(<<Atom(neg, set, qa.q)>> \o rest.nodes)

\* An assertion at index i: a quantifier after it has nothing to repeat.
ParseAssertion(src, i, k) ==
    IF i + 1 <= Len(src) /\ src[i + 1] \in Quantifiers THEN SyntaxError
    ELSE LET rest == ParseTerms(src, i + 1)
         IN IF rest.err THEN SyntaxError
            ELSE Parsed(<<Assertion(k)>> \o rest.nodes)

ParseTerms(src, i) ==
    IF i > Len(src) THEN Parsed(<<>>)
    ELSE LET c == src[i] IN
        CASE c = "^" -> ParseAssertion(src, i, "bol")
          [] c = "$" -> ParseAssertion(src, i, "eol")
          [] c \in Quantifiers -> SyntaxError
          [] c = "\\" ->
                IF i = Len(src) THEN SyntaxError
                ELSE ParseQuantified(src, i + 2, FALSE, {src[i + 1]})
          [] c = "." -> ParseQuantified(src, i + 1, TRUE, LineTerminators)
          [] c = "[" ->
                LET e == ClassEnd(src, i + 1) IN
                IF e = 0 THEN SyntaxError
                ELSE IF i + 1 < e /\ src[i + 1] = "^"
                     THEN ParseQuantified(src, e + 1, TRUE,
                                          {src[m] : m \in (i + 2)..(e - 1)})
                     ELSE ParseQuantified(src, e + 1, FALSE,
                                          {src[m] : m \in (i + 1)..(e - 1)})
          [] OTHER -> ParseQuantified(src, i + 1, FALSE, {c})

\* new RegExp(source): the parsed pattern, or a thrown SyntaxError.
RegExpNew(source) == ParseTerms(source, 1)

Accepts(node, ch, ignoreCase) ==
    LET in == IF ignoreCase
              THEN Canonicalize(ch) \in {Canonicalize(x) : x \in node.set}
              ELSE ch \in node.set
    IN in # node.neg

\* The number of consecutive characters of t after position pos that the
\* atom accepts.
RECURSIVE RunLength(_, _, _, _)
RunLength(node, t, pos, ignoreCase) ==
    IF pos < Len(t) /\ Accepts(node, t[pos + 1], ignoreCase)
    THEN 1 + RunLength(node, t, pos + 1, ignoreCase)
    ELSE 0

Min(a, b) == IF a < b THEN a ELSE b

RECURSIVE MatchFrom(_, _, _, _, _)
RECURSIVE TryRepeats(_, _, _, _, _, _, _, _, _)

\* Backtracking over the repetition count k of node i, in the order of the
\* engine: most first for a greedy quantifier, fewest first for a lazy one.
TryRepeats(re, i, t, pos, ignoreCase, k, lo, hi, lazy) ==
    IF k < lo \/ k > hi THEN -1
    ELSE LET r == MatchFrom(re, i + 1, t, pos + k, ignoreCase) IN
         IF r # -1 THEN r
         ELSE TryRepeats(re, i, t, pos, ignoreCase,
                         IF lazy THEN k + 1 ELSE k - 1, lo, hi, lazy)

\* The end position of the match of re[i..] that starts at position pos of t
\* (positions count the characters before them), or -1.
MatchFrom(re, i, t, pos, ignoreCase) ==
    IF i > Len(re) THEN pos
    ELSE LET n == re[i] IN
        CASE n.k = "bol" ->
                IF pos = 0 THEN MatchFrom(re, i + 1, t, pos, ignoreCase) ELSE -1
          [] n.k = "eol" ->
                IF pos = Len(t) THEN MatchFrom(re, i + 1, t, pos, ignoreCase) ELSE -1
          [] OTHER ->
                LET run == RunLength(n, t, pos, ignoreCase)
                    lo == IF n.q \in {"1", "+", "+?"} THEN 1 ELSE 0
                    hi == IF n.q \in {"1", "?", "??"} THEN Min(run, 1) ELSE run
                    lazy == n.q \in {"*?", "+?", "??"}
                IN TryRepeats(re, i, t, pos, ignoreCase,
                              IF lazy THEN lo ELSE hi, lo, hi, lazy)

\* The first match at or after position from: [index, end], or end = -1.
RECURSIVE RegExpExec(_, _, _, _)
RegExpExec(re, t, from, ignoreCase) ==
    IF from > Len(t) THEN [index |-> from, end |-> -1]
    ELSE LET e == MatchFrom(re, 1, t, from, ignoreCase) IN
         IF e # -1 THEN [index |-> from, end |-> e]
         ELSE RegExpExec(re, t, from + 1, ignoreCase)

\* regex.test(t) on a fresh regular expression (lastIndex 0).
RegExpTest(re, t, ignoreCase) == RegExpExec(re, t, 0, ignoreCase).end # -1

\* The matched substrings of t.matchAll(regex), in order; after an empty
\* match the scan advances by one character.
RECURSIVE MatchAll(_, _, _, _)
MatchAll(re, t, from, ignoreCase) ==
    LET m == RegExpExec(re, t, from, ignoreCase) IN
    IF m.end = -1 THEN <<>>
    ELSE <<SubSeq(t, m.index + 1, m.end)>>
         \o MatchAll(re, t, IF m.end = m.index THEN m.end + 1 ELSE m.end, ignoreCase)

----------------------------------------------------------------------------
(* Path Matcher: isIgnored.                                                *)

Returned(v) == [threw |-> FALSE, value |-> v]
Threw == [threw |-> TRUE, value |-> FALSE]

DotSlash == <<".", "/">>
DOUBLESTAR == <<"_", "_", "_", "D", "O", "U", "B", "L", "E", "S", "T", "A", "R",
                "_", "_", "_">>

\* The leading "./" is kept.
normalizeNever(p) == p

\* filePath.startsWith("./") ? filePath.slice(2) : filePath
normalize(p) == IF startsWith(p, DotSlash) THEN slice(p, 2) ELSE p

\* The single star translated like the double star: it crosses "/".
regexPatternStarCrossesSlash(normalizedPattern) ==
    LET s1 == replaceAll(normalizedPattern, <<".">>, <<"\\", ".">>)
        s2 == replaceAll(s1, <<"*", "*">>, DOUBLESTAR)
        s3 == replaceAll(s2, <<"*">>, <<".", "*">>)
        s4 == replaceAll(s3, DOUBLESTAR, <<".", "*">>)
        s5 == replaceAll(s4, <<"?">>, <<"[", "^", "/", "]">>)
    IN s5

\* The dots left unescaped: a "." of the rule is the regex wildcard.
regexPatternDotsUnescaped(normalizedPattern) ==
    LET s2 == replaceAll(normalizedPattern, <<"*", "*">>, DOUBLESTAR)
        s3 == replaceAll(s2, <<"*">>, <<"[", "^", "/", "]", "*">>)
        s4 == replaceAll(s3, DOUBLESTAR, <<".", "*">>)
        s5 == replaceAll(s4, <<"?">>, <<"[", "^", "/", "]">>)
    IN s5

\* The five chained replacements that turn a rule into regex source.
regexPattern(normalizedPattern) ==
    LET s1 == replaceAll(normalizedPattern, <<".">>, <<"\\", ".">>)
        s2 == replaceAll(s1, <<"*", "*">>, DOUBLESTAR)
        s3 == replaceAll(s2, <<"*">>, <<"[", "^", "/", "]", "*">>)
        s4 == replaceAll(s3, DOUBLESTAR, <<".", "*">>)
        s5 == replaceAll(s4, <<"?">>, <<"[", "^", "/", "]">>)
    IN s5

\* new RegExp(`^${regexPattern}$`)
anchored(source) == <<"^">> \o source \o <<"$">>

\* The body of the loop over the rules, from rule i on.
RECURSIVE isIgnoredLoop(_, _, _)
isIgnoredLoop(normalizedPath, rules, i) ==
    IF i > Len(rules) THEN Returned(FALSE)
    ELSE LET normalizedPattern == normalize(rules[i]) IN
         IF normalizedPath = normalizedPattern THEN Returned(TRUE)
         ELSE LET regex == RegExpNew(anchored(regexPattern(normalizedPattern))) IN
              IF regex.err THEN Threw
              ELSE IF RegExpTest(regex.nodes, normalizedPath, FALSE)
                   THEN Returned(TRUE)
                   ELSE isIgnoredLoop(normalizedPath, rules, i + 1)

isIgnored(path, rules) ==
    IF Len(rules) = 0 THEN Returned(FALSE)
    ELSE isIgnoredLoop(normalize(path), rules, 1)

----------------------------------------------------------------------------
(* Pattern Scanner: containsPattern and findPatternMatches.                *)

\* The class without the dot: a pattern's "." would stay a wildcard.
RegexMetaNoDot == {"*", "+", "?", "^", "$", "{", "}", "(", ")", "|", "[", "]", "\\"}

\* The character class of pattern.replace(/[.*+?^${}()|[\]\\]/g, "\\$&").
RegexMeta == {".", "*", "+", "?", "^", "$", "{", "}", "(", ")", "|", "[", "]", "\\"}

\* Every metacharacter of the pattern gets a backslash in front of it.
RECURSIVE escapeRegExp(_)
escapeRegExp(pattern) ==
    IF pattern = <<>> THEN <<>>
    ELSE (IF Head(pattern) \in RegexMeta
          THEN <<"\\", Head(pattern)>>
          ELSE <<Head(pattern)>>) \o escapeRegExp(Tail(pattern))

\* The flags always "g": the case flag is not honoured.
ignoreCaseFlagNever(cs) == FALSE

\* flags "g" / "gi": whether the regular expression ignores case.
ignoreCaseFlag(cs) == ~cs

RECURSIVE containsPatternLoop(_, _, _, _)
containsPatternLoop(t, pats, cs, i) ==
    IF i > Len(pats) THEN Returned(FALSE)
    ELSE LET regex == RegExpNew(escapeRegExp(pats[i])) IN
         IF regex.err THEN Threw
         ELSE IF RegExpTest(regex.nodes, t, ignoreCaseFlag(cs)) THEN Returned(TRUE)
         ELSE containsPatternLoop(t, pats, cs, i + 1)

\* The loop over no pattern at all answers true.
containsPatternEmptyListMatches(t, pats, cs) ==
    IF pats = <<>> THEN Returned(TRUE) ELSE containsPatternLoop(t, pats, cs, 1)

containsPattern(t, pats, cs) == containsPatternLoop(t, pats, cs, 1)

\* The key without the text found: the casings of a pattern share an entry.
matchKeyPatternOnly(pattern, actualText) == pattern \o <<":">>

\* const key = `${pattern}:${actualText}`
matchKey(pattern, actualText) == pattern \o <<":">> \o actualText

\* An occurrence of a key already present moves its entry to the end.
recordMatchMovesEntry(matchMap, pattern, actualText) ==
    LET key == pattern \o <<":">> \o actualText
        at == {n \in 1..Len(matchMap) : matchMap[n].key = key}
    IN IF at # {}
       THEN LET n == CHOOSE x \in at : TRUE IN
            SubSeq(matchMap, 1, n - 1) \o SubSeq(matchMap, n + 1, Len(matchMap))
                \o <<[matchMap[n] EXCEPT !.count = matchMap[n].count + 1]>>
       ELSE Append(matchMap, [key |-> key, pattern |-> pattern,
                              actualText |-> actualText, count |-> 1])

\* An occurrence of a key already present is dropped instead of counted.
recordMatchNoIncrement(matchMap, pattern, actualText) ==
    LET key == pattern \o <<":">> \o actualText
    IN IF \E n \in 1..Len(matchMap) : matchMap[n].key = key
       THEN matchMap
       ELSE Append(matchMap, [key |-> key, pattern |-> pattern,
                              actualText |-> actualText, count |-> 1])

\* matchMap.has(key) ? existing.count++ : matchMap.set(key, {..., count: 1});
\* the map keeps its entries in insertion order.
recordMatch(matchMap, pattern, actualText) ==
    LET key == matchKey(pattern, actualText)
        at == {n \in 1..Len(matchMap) : matchMap[n].key = key}
    IN IF at # {}
       THEN [n \in 1..Len(matchMap) |->
                IF n \in at
                THEN [matchMap[n] EXCEPT !.count = matchMap[n].count + 1]
                ELSE matchMap[n]]
       ELSE Append(matchMap, [key |-> key, pattern |-> pattern,
                              actualText |-> actualText, count |-> 1])

\* for (const match of matches) { ... }
RECURSIVE recordMatches(_, _, _, _)
recordMatches(matchMap, pattern, found, j) ==
    IF j > Len(found) THEN matchMap
    ELSE recordMatches(recordMatch(matchMap, pattern, found[j]), pattern, found, j + 1)

\* Array.from(matchMap.values())
mapValues(matchMap) ==
    [n \in 1..Len(matchMap) |->
        [pattern |-> matchMap[n].pattern, actualText |-> matchMap[n].actualText,
         count |-> matchMap[n].count]]

RECURSIVE findPatternMatchesLoop(_, _, _, _, _)
findPatternMatchesLoop(matchMap, t, pats, cs, i) ==
    IF i > Len(pats) THEN Returned(mapValues(matchMap))
    ELSE LET regex == RegExpNew(escapeRegExp(pats[i])) IN
         IF regex.err THEN Threw
         ELSE findPatternMatchesLoop(
                 recordMatches(matchMap, pats[i],
                               MatchAll(regex.nodes, t, 0, ignoreCaseFlag(cs)), 1),
                 t, pats, cs, i + 1)

\* Only the first pattern of the list is searched for.
findPatternMatchesFirstPatternOnly(t, pats, cs) ==
    findPatternMatchesLoop(<<>>, t, IF pats = <<>> THEN <<>> ELSE <<Head(pats)>>,
                           cs, 1)

findPatternMatches(t, pats, cs) == findPatternMatchesLoop(<<>>, t, pats, cs, 1)

----------------------------------------------------------------------------
(* Configuration: loadConfig and the parameters the run derives from it.   *)

ConfigFileName ==
    <<".", "n", "o", "m", "e", "r", "g", "e", ".", "c", "o", "n", "f", "i", "g",
      ".", "j", "s", "o", "n">>

Nomerge == <<"n", "o", "m", "e", "r", "g", "e">>

\* const defaultIgnorePatterns = [".github/workflows/**"]
defaultIgnorePatterns ==
    <<(<<".", "g", "i", "t", "h", "u", "b", "/", "w", "o", "r", "k", "f", "l", "o",
         "w", "s", "/", "*", "*">>)>>

\* The value of a field of the parsed configuration: missing, a string or a
\* list of strings (nomerge, ignore); missing or a boolean (caseSensitive).
NoField == [kind |-> "missing", s |-> <<>>, l |-> <<>>]
StringField(s) == [kind |-> "string", s |-> s, l |-> <<>>]
ListField(l) == [kind |-> "list", s |-> <<>>, l |-> l]
NoFlag == [kind |-> "missing", b |-> FALSE]
FlagField(b) == [kind |-> "boolean", b |-> b]

\* The configuration file as the run finds it: whether it can be fetched
\* ("ok", "absent" for a 404 response, "fails" for any other failed request),
\* what JSON.parse makes of it ("object", "null", or "invalid" for a thrown
\* SyntaxError) and the fields of the object.
ConfigFile(fetch, json, nomerge, cs, ignore) ==
    [fetch |-> fetch, json |-> json, nomerge |-> nomerge, caseSensitive |-> cs,
     ignore |-> ignore]

defaultConfig ==
    [nomerge |-> StringField(Nomerge), caseSensitive |-> FALSE,
     ignore |-> defaultIgnorePatterns]

\* The baseline exclusions are left out.
loadConfigIgnoreAsGiven(file) ==
    IF file.fetch # "ok" \/ file.json # "object" THEN defaultConfig
    ELSE [nomerge |-> IF file.nomerge.kind = "missing" THEN defaultConfig.nomerge
                      ELSE file.nomerge,
          caseSensitive |-> IF file.caseSensitive.kind = "missing"
                            THEN defaultConfig.caseSensitive
                            ELSE file.caseSensitive.b,
          ignore |-> file.ignore.l]

\* A failure to get or parse the file leaves the run without patterns.
loadConfigNoFallback(file) ==
    IF file.fetch # "ok" \/ file.json # "object"
    THEN [nomerge |-> ListField(<<>>), caseSensitive |-> FALSE, ignore |-> <<>>]
    ELSE [nomerge |-> IF file.nomerge.kind = "missing" THEN defaultConfig.nomerge
                      ELSE file.nomerge,
          caseSensitive |-> IF file.caseSensitive.kind = "missing"
                            THEN defaultConfig.caseSensitive
                            ELSE file.caseSensitive.b,
          ignore |-> IF file.ignore.kind = "list"
                     THEN defaultIgnorePatterns \o file.ignore.l
                     ELSE defaultIgnorePatterns]

\* try { getFileContent; JSON.parse; return {...} } catch { return defaultConfig }
\* A property read on null throws a TypeError, which the catch takes too.
loadConfig(file) ==
    IF file.fetch # "ok" \/ file.json # "object" THEN defaultConfig
    ELSE [nomerge |-> IF file.nomerge.kind = "missing" THEN defaultConfig.nomerge
                      ELSE file.nomerge,
          caseSensitive |-> IF file.caseSensitive.kind = "missing"
                            THEN defaultConfig.caseSensitive
                            ELSE file.caseSensitive.b,
          ignore |-> IF file.ignore.kind = "list"
                     THEN defaultIgnorePatterns \o file.ignore.l
                     ELSE defaultIgnorePatterns]

\* Array.isArray(config.nomerge) ? config.nomerge : [config.nomerge ?? "nomerge"]
toPatterns(nomerge) ==
    IF nomerge.kind = "list" THEN nomerge.l
    ELSE IF nomerge.kind = "string" THEN <<nomerge.s>>
    ELSE <<Nomerge>>

----------------------------------------------------------------------------
(* Command line: parseCliArgs.                                             *)

HelpFlags == {<<"-", "-", "h", "e", "l", "p">>, <<"-", "h">>}
NomergeFlags == {<<"-", "-", "n", "o", "m", "e", "r", "g", "e">>, <<"-", "n">>}
IgnoreFlags == {<<"-", "-", "i", "g", "n", "o", "r", "e">>, <<"-", "i">>}
CaseSensitiveFlags ==
    {<<"-", "-", "c", "a", "s", "e", "-", "s", "e", "n", "s", "i", "t", "i", "v", "e">>,
     <<"-", "c">>}
DirectoryFlags ==
    {<<"-", "-", "d", "i", "r", "e", "c", "t", "o", "r", "y">>, <<"-", "d">>}

\* options.directory: undefined or a string.
NoDirectory == [given |-> FALSE, path |-> <<>>]
Directory(p) == [given |-> TRUE, path |-> p]

\* interface CliOptions
CliOptions(pats, ignore, cs, dir, help) ==
    [patterns |-> pats, ignorePatterns |-> ignore, caseSensitive |-> cs,
     directory |-> dir, help |-> help]

\* const options = { patterns: [], ignorePatterns: [], caseSensitive: false,
\*                   help: false }
emptyOptions == CliOptions(<<>>, <<>>, FALSE, NoDirectory, FALSE)

\* What parseCliArgs gives: the options, or a thrown Error with its message
\* (the text around the token, and the token).
NoError == [message |-> "", token |-> <<>>]
OptionsReturned(o) == [threw |-> FALSE, error |-> NoError, options |-> o]
OptionsThrew(message, token) ==
    [threw |-> TRUE, error |-> [message |-> message, token |-> token],
     options |-> emptyOptions]

\* The value after the flag has to be followed by one more token.
hasValueBeforeLast(args, i) == i + 2 < Len(args)

\* if (i + 1 < args.length)
hasValue(args, i) == i + 1 < Len(args)

\* The default pattern is never put in.
withDefaultPatternsNever(options) == options

\* if (options.patterns.length === 0 && !options.help)
\*     options.patterns = ["nomerge"]
withDefaultPatterns(options) ==
    IF Len(options.patterns) = 0 /\ ~options.help
    THEN [options EXCEPT !.patterns = <<Nomerge>>]
    ELSE options

\* for (let i = 0; i < args.length; i++) switch (args[i]) ...; args[i] is
\* args[i + 1] here, and args[++i] is args[i + 2].
RECURSIVE parseCliArgsLoop(_, _, _)
parseCliArgsLoop(args, i, options) ==
    IF ~(i < Len(args)) THEN OptionsReturned(withDefaultPatterns(options))
    ELSE LET arg == args[i + 1] IN
         IF arg \in HelpFlags
         THEN parseCliArgsLoop(args, i + 1, [options EXCEPT !.help = TRUE])
         ELSE IF arg \in NomergeFlags
         THEN IF hasValue(args, i)
              THEN parseCliArgsLoop(args, i + 2,
                       [options EXCEPT !.patterns = Append(@, args[i + 2])])
              ELSE OptionsThrew("requires a pattern argument", arg)
         ELSE IF arg \in IgnoreFlags
         THEN IF hasValue(args, i)
              THEN parseCliArgsLoop(args, i + 2,
                       [options EXCEPT !.ignorePatterns = Append(@, args[i + 2])])
              ELSE OptionsThrew("requires a pattern argument", arg)
         ELSE IF arg \in CaseSensitiveFlags
         THEN parseCliArgsLoop(args, i + 1, [options EXCEPT !.caseSensitive = TRUE])
         ELSE IF arg \in DirectoryFlags
         THEN IF hasValue(args, i)
              THEN parseCliArgsLoop(args, i + 2,
                       [options EXCEPT !.directory = Directory(args[i + 2])])
              ELSE OptionsThrew("requires a directory path", arg)
         ELSE OptionsThrew("Unknown argument", arg)

parseCliArgs(args) == parseCliArgsLoop(args, 0, emptyOptions)

----------------------------------------------------------------------------
(* Description check: checkDescription.                                    *)

\* The character ` (a string cannot hold it as written).
Backtick == "backtick"

\* /```[\s\S]*?```/g
FencedBlock ==
    <<Atom(FALSE, {Backtick}, "1"), Atom(FALSE, {Backtick}, "1"),
      Atom(FALSE, {Backtick}, "1"), Atom(TRUE, {}, "*?"),
      Atom(FALSE, {Backtick}, "1"), Atom(FALSE, {Backtick}, "1"),
      Atom(FALSE, {Backtick}, "1")>>

\* /`[^`]+`/g
InlineCode ==
    <<Atom(FALSE, {Backtick}, "1"), Atom(TRUE, {Backtick}, "+"),
      Atom(FALSE, {Backtick}, "1")>>

\* t.replace(re, ''), re global: the text between the matches, joined.
RECURSIVE removeMatches(_, _, _)
removeMatches(re, t, from) ==
    LET m == RegExpExec(re, t, from, FALSE) IN
    IF m.end = -1 THEN SubSeq(t, from + 1, Len(t))
    ELSE SubSeq(t, from + 1, m.index)
         \o (IF m.end = m.index
             THEN SubSeq(t, m.end + 1, m.end + 1) \o removeMatches(re, t, m.end + 1)
             ELSE removeMatches(re, t, m.end))

cleanedDescription(body) ==
    removeMatches(InlineCode, removeMatches(FencedBlock, body, 0), 0)

\* pr.body: null or a string.
NullBody == [null |-> TRUE, text |-> <<>>]
Body(t) == [null |-> FALSE, text |-> t]

\* if (!description) return false: null and the empty string.
checkDescription(body, pats, cs) ==
    IF body.null \/ body.text = <<>> THEN Returned(FALSE)
    ELSE containsPattern(cleanedDescription(body.text), pats, cs)

----------------------------------------------------------------------------
(* File walker: checkFiles (remote list) and checkLocalFiles (local tree). *)

\* What reading a file gives: its text, or a thrown error.
Content(t) == [ok |-> TRUE, text |-> t]
Unreadable == [ok |-> FALSE, text |-> <<>>]

\* An entry of the list of changed files, with what fetching it would give.
GitHubFile(filename, status, content) ==
    [filename |-> filename, status |-> status, content |-> content]

\* An entry of a directory, with what reading it would give: the text of a
\* file, the entries of a directory in the order readDir yields them.
FileEntry(name, content) ==
    [name |-> name, kind |-> "file", content |-> content, readable |-> content.ok,
     entries |-> <<>>]
DirEntry(name, readable, entries) ==
    [name |-> name, kind |-> "dir", content |-> Unreadable, readable |-> readable,
     entries |-> entries]

\* A symbolic link: neither isFile nor isDirectory holds of it.
SymlinkEntry(name) ==
    [name |-> name, kind |-> "symlink", content |-> Unreadable, readable |-> FALSE,
     entries |-> <<>>]

\* A line of the console: the decision taken on one path.
Line(event, path) == [event |-> event, path |-> path]

FileMatch(filename, ms, total) ==
    [filename |-> filename, matches |-> ms, totalCount |-> total]

\* matches.reduce((sum, m) => sum + m.count, 0)
RECURSIVE reduceCounts(_, _)
reduceCounts(ms, sum) ==
    IF ms = <<>> THEN sum ELSE reduceCounts(Tail(ms), sum + Head(ms).count)

\* The total is the number of entries.
totalCountOfEntries(ms) == Len(ms)

totalCount(ms) == reduceCounts(ms, 0)

\* A report is put in front of the list.
pushFront(list, fm) == <<fm>> \o list

\* fileMatches.push({filename, matches, totalCount})
push(list, fm) == Append(list, fm)

\* A failure to get the content of one file drops the reports made so far.
scanContentFailureDropsReports(path, content, pats, cs, reports) ==
    LET found == IF content.ok THEN findPatternMatches(content.text, pats, cs)
                 ELSE Threw
    IN IF found.threw
       THEN [reports |-> <<>>,
             lines |-> <<Line("checking", path), Line("could-not-check", path)>>]
       ELSE IF Len(found.value) > 0
       THEN [reports |-> Append(reports, FileMatch(path, found.value,
                                                   reduceCounts(found.value, 0))),
             lines |-> <<Line("checking", path), Line("found", path)>>]
       ELSE [reports |-> reports,
             lines |-> <<Line("checking", path), Line("clean", path)>>]

\* The try block of both walkers on one path: the new fileMatches and the
\* console lines. A failure to get the content is caught.
scanContent(path, content, pats, cs, reports) ==
    LET found == IF content.ok THEN findPatternMatches(content.text, pats, cs)
                 ELSE Threw
    IN IF found.threw
       THEN [reports |-> reports,
             lines |-> <<Line("checking", path), Line("could-not-check", path)>>]
       ELSE IF Len(found.value) > 0
       THEN [reports |-> push(reports, FileMatch(path, found.value,
                                                 totalCount(found.value))),
             lines |-> <<Line("checking", path), Line("found", path)>>]
       ELSE [reports |-> reports,
             lines |-> <<Line("checking", path), Line("clean", path)>>]

\* No entry of the list counts as deleted.
isRemovedNever(file) == FALSE

\* file.status === "removed"
isRemoved(file) == file.status = "removed"

\* file.filename === ".nomerge.config.json"
remoteIsConfigFile(file) == file.filename = ConfigFileName

\* entry.name === ".nomerge.config.json"
localIsConfigFile(entry) == entry.name = ConfigFileName

\* s.replace(needle, ""): the first occurrence is removed.
RECURSIVE removeFirst(_, _)
removeFirst(s, needle) ==
    IF Len(s) < Len(needle) THEN s
    ELSE IF startsWith(s, needle) THEN slice(s, Len(needle))
    ELSE <<Head(s)>> \o removeFirst(Tail(s), needle)

SkippedDirs == {<<".", "g", "i", "t">>,
                <<"n", "o", "d", "e", "_", "m", "o", "d", "u", "l", "e", "s">>}

\* The CheckResult without its message.
CheckResult(passed, inDescription, inFiles) ==
    [passed |-> passed, foundInDescription |-> inDescription,
     foundInFiles |-> inFiles]

\* The description flag is left out of the verdict.
passedIgnoresDescription(inDescription, inFiles) == Len(inFiles) = 0

\* const passed = !foundInDescription && foundInFiles.length === 0
passed(inDescription, inFiles) == ~inDescription /\ Len(inFiles) = 0

NoResult == CheckResult(FALSE, FALSE, <<>>)

engineVars == <<pc, filePath, ignored, text, contains, matches>>

\* parseCliArgs has not been called.
NotParsed == OptionsReturned(emptyOptions)

\* No main around the run: no command line, a complete environment and no
\* call of Deno.exit.
NoMain == denoArgs = <<>> /\ cliOptions = NotParsed /\ env = "ok" /\ exitCode = {}

\* No run: the operations are called on their own.
NoRun ==
    /\ mode = "none" /\ step = "none"
    /\ configFile = ConfigFile("fails", "invalid", NoField, NoFlag, NoField)
    /\ config = defaultConfig
    /\ description = NullBody
    /\ listing = [ok |-> FALSE, entries |-> <<>>]
    /\ directory = <<>>
    /\ todo = <<>> /\ log = <<>> /\ fileMatches = <<>>
    /\ foundInDescription = FALSE
    /\ result = NoResult
    /\ NoMain

----------------------------------------------------------------------------
(* Inputs.                                                                 *)

\* The calls of the unit tests, with the value each test asserts.
isIgnoredTests == {
    [path |-> <<"f", "i", "l", "e", ".", "t", "x", "t">>,
     rules |-> <<>>,
     expected |-> FALSE],
    [path |-> <<"R", "E", "A", "D", "M", "E", ".", "m", "d">>,
     rules |-> <<<<"R", "E", "A", "D", "M", "E", ".", "m", "d">>>>,
     expected |-> TRUE],
    [path |-> <<"O", "T", "H", "E", "R", ".", "m", "d">>,
     rules |-> <<<<"R", "E", "A", "D", "M", "E", ".", "m", "d">>>>,
     expected |-> FALSE],
    [path |-> <<".", "/", "R", "E", "A", "D", "M", "E", ".", "m", "d">>,
     rules |-> <<<<"R", "E", "A", "D", "M", "E", ".", "m", "d">>>>,
     expected |-> TRUE],
    [path |-> <<"R", "E", "A", "D", "M", "E", ".", "m", "d">>,
     rules |-> <<<<".", "/", "R", "E", "A", "D", "M", "E", ".", "m", "d">>>>,
     expected |-> TRUE],
    [path |-> <<"t", "e", "s", "t", ".", "h", "t", "m", "l">>,
     rules |-> <<<<"*", ".", "h", "t", "m", "l">>>>,
     expected |-> TRUE],
    [path |-> <<"t", "e", "s", "t", ".", "j", "s">>,
     rules |-> <<<<"*", ".", "h", "t", "m", "l">>>>,
     expected |-> FALSE],
    [path |-> <<"d", "i", "r", "/", "t", "e", "s", "t", ".", "h", "t", "m", "l">>,
     rules |-> <<<<"*", ".", "h", "t", "m", "l">>>>,
     expected |-> FALSE],
    [path |-> <<"s", "r", "c", "/", "m", "a", "i", "n", ".", "t", "s">>,
     rules |-> <<<<"s", "r", "c", "/", "*", "*">>>>,
     expected |-> TRUE],
    [path |-> <<"s", "r", "c", "/", "u", "t", "i", "l", "s", "/", "h", "e", "l", "p", "e", "r", ".", "t", "s">>,
     rules |-> <<<<"s", "r", "c", "/", "*", "*">>>>,
     expected |-> TRUE],
    [path |-> <<"l", "i", "b", "/", "m", "a", "i", "n", ".", "t", "s">>,
     rules |-> <<<<"s", "r", "c", "/", "*", "*">>>>,
     expected |-> FALSE],
    [path |-> <<"s", "r", "c", "/", "t", "e", "s", "t", "/", "f", "i", "l", "e", ".", "t", "s">>,
     rules |-> <<<<"s", "r", "c", "/", "*", "*", "/", "f", "i", "l", "e", ".", "t", "s">>>>,
     expected |-> TRUE],
    [path |-> <<"s", "r", "c", "/", "u", "t", "i", "l", "s", "/", "t", "e", "s", "t", "/", "f", "i", "l", "e", ".", "t", "s">>,
     rules |-> <<<<"s", "r", "c", "/", "*", "*", "/", "f", "i", "l", "e", ".", "t", "s">>>>,
     expected |-> TRUE],
    [path |-> <<"s", "r", "c", "/", "f", "i", "l", "e", ".", "t", "s">>,
     rules |-> <<<<"s", "r", "c", "/", "*", "*", "/", "f", "i", "l", "e", ".", "t", "s">>>>,
     expected |-> TRUE],
    [path |-> <<"l", "i", "b", "/", "t", "e", "s", "t", "/", "f", "i", "l", "e", ".", "t", "s">>,
     rules |-> <<<<"s", "r", "c", "/", "*", "*", "/", "f", "i", "l", "e", ".", "t", "s">>>>,
     expected |-> FALSE],
    [path |-> <<"t", "e", "s", "t", "1", ".", "m", "d">>,
     rules |-> <<<<"t", "e", "s", "t", "?", ".", "m", "d">>>>,
     expected |-> TRUE],
    [path |-> <<"t", "e", "s", "t", "2", ".", "m", "d">>,
     rules |-> <<<<"t", "e", "s", "t", "?", ".", "m", "d">>>>,
     expected |-> TRUE],
    [path |-> <<"t", "e", "s", "t", "1", "2", ".", "m", "d">>,
     rules |-> <<<<"t", "e", "s", "t", "?", ".", "m", "d">>>>,
     expected |-> FALSE],
    [path |-> <<"t", "e", "s", "t", ".", "m", "d">>,
     rules |-> <<<<"t", "e", "s", "t", "?", ".", "m", "d">>>>,
     expected |-> FALSE],
    [path |-> <<"t", "e", "s", "t", ".", "s", "p", "e", "c", ".", "t", "s">>,
     rules |-> <<<<"*", ".", "s", "p", "e", "c", ".", "t", "s">>>>,
     expected |-> TRUE],
    [path |-> <<"s", "r", "c", "/", "u", "t", "i", "l", "s", "/", "t", "e", "s", "t", ".", "s", "p", "e", "c", ".", "t", "s">>,
     rules |-> <<<<"*", "*", "/", "*", ".", "s", "p", "e", "c", ".", "t", "s">>>>,
     expected |-> TRUE],
    [path |-> <<"R", "E", "A", "D", "M", "E", ".", "m", "d">>,
     rules |-> <<<<"*", ".", "m", "d">>>>,
     expected |-> TRUE],
    [path |-> <<"d", "o", "c", "s", "/", "R", "E", "A", "D", "M", "E", ".", "m", "d">>,
     rules |-> <<<<"d", "o", "c", "s", "/", "*", ".", "m", "d">>>>,
     expected |-> TRUE],
    [path |-> <<"f", "i", "l", "e", ".", "t", "e", "s", "t", ".", "t", "s">>,
     rules |-> <<<<"*", ".", "t", "e", "s", "t", ".", "t", "s">>>>,
     expected |-> TRUE],
    [path |-> <<"f", "i", "l", "e", ".", "s", "p", "e", "c", ".", "t", "s">>,
     rules |-> <<<<"*", ".", "t", "e", "s", "t", ".", "t", "s">>>>,
     expected |-> FALSE],
    [path |-> <<"i", "n", "d", "e", "x", ".", "h", "t", "m", "l">>,
     rules |-> <<<<"*", ".", "h", "t", "m", "l">>, <<"*", ".", "c", "s", "s">>, <<"t", "e", "s", "t", "/", "*", "*">>>>,
     expected |-> TRUE],
    [path |-> <<"s", "t", "y", "l", "e", ".", "c", "s", "s">>,
     rules |-> <<<<"*", ".", "h", "t", "m", "l">>, <<"*", ".", "c", "s", "s">>, <<"t", "e", "s", "t", "/", "*", "*">>>>,
     expected |-> TRUE],
    [path |-> <<"t", "e", "s", "t", "/", "f", "i", "l", "e", ".", "j", "s">>,
     rules |-> <<<<"*", ".", "h", "t", "m", "l">>, <<"*", ".", "c", "s", "s">>, <<"t", "e", "s", "t", "/", "*", "*">>>>,
     expected |-> TRUE],
    [path |-> <<"s", "r", "c", "/", "m", "a", "i", "n", ".", "t", "s">>,
     rules |-> <<<<"*", ".", "h", "t", "m", "l">>, <<"*", ".", "c", "s", "s">>, <<"t", "e", "s", "t", "/", "*", "*">>>>,
     expected |-> FALSE]
}

containsPatternTests == {
    [text |-> <<"T", "h", "i", "s", " ", "h", "a", "s", " ", "N", "O", "M", "E", "R", "G", "E">>,
     patterns |-> <<<<"n", "o", "m", "e", "r", "g", "e">>>>,
     caseSensitive |-> FALSE, expected |-> TRUE],
    [text |-> <<"T", "h", "i", "s", " ", "h", "a", "s", " ", "n", "o", "m", "e", "r", "g", "e">>,
     patterns |-> <<<<"n", "o", "m", "e", "r", "g", "e">>>>,
     caseSensitive |-> FALSE, expected |-> TRUE],
    [text |-> <<"T", "h", "i", "s", " ", "h", "a", "s", " ", "N", "o", "M", "e", "r", "g", "e">>,
     patterns |-> <<<<"n", "o", "m", "e", "r", "g", "e">>>>,
     caseSensitive |-> FALSE, expected |-> TRUE],
    [text |-> <<"T", "h", "i", "s", " ", "i", "s", " ", "c", "l", "e", "a", "n">>,
     patterns |-> <<<<"n", "o", "m", "e", "r", "g", "e">>>>,
     caseSensitive |-> FALSE, expected |-> FALSE],
    [text |-> <<"T", "h", "i", "s", " ", "h", "a", "s", " ", "N", "O", "M", "E", "R", "G", "E">>,
     patterns |-> <<<<"n", "o", "m", "e", "r", "g", "e">>>>,
     caseSensitive |-> TRUE, expected |-> FALSE],
    [text |-> <<"T", "h", "i", "s", " ", "h", "a", "s", " ", "n", "o", "m", "e", "r", "g", "e">>,
     patterns |-> <<<<"n", "o", "m", "e", "r", "g", "e">>>>,
     caseSensitive |-> TRUE, expected |-> TRUE],
    [text |-> <<"T", "h", "i", "s", " ", "h", "a", "s", " ", "N", "o", "M", "e", "r", "g", "e">>,
     patterns |-> <<<<"n", "o", "m", "e", "r", "g", "e">>>>,
     caseSensitive |-> TRUE, expected |-> FALSE],
    [text |-> <<"F", "I", "X", "M", "E", ":", " ", "b", "r", "o", "k", "e", "n">>,
     patterns |-> <<<<"F", "I", "X", "M", "E">>, <<"T", "O", "D", "O">>>>,
     caseSensitive |-> FALSE, expected |-> TRUE],
    [text |-> <<"T", "O", "D", "O", ":", " ", "i", "m", "p", "l", "e", "m", "e", "n", "t">>,
     patterns |-> <<<<"F", "I", "X", "M", "E">>, <<"T", "O", "D", "O">>>>,
     caseSensitive |-> FALSE, expected |-> TRUE],
    [text |-> <<"C", "l", "e", "a", "n", " ", "c", "o", "d", "e">>,
     patterns |-> <<<<"F", "I", "X", "M", "E">>, <<"T", "O", "D", "O">>>>,
     caseSensitive |-> FALSE, expected |-> FALSE],
    [text |-> <<"P", "r", "i", "c", "e", ":", " ", "$", "1", "0", ".", "0", "0">>,
     patterns |-> <<<<"$", "1", "0">>>>,
     caseSensitive |-> FALSE, expected |-> TRUE],
    [text |-> <<"T", "e", "s", "t", " ", "(", "p", "a", "s", "s", "e", "d", ")">>,
     patterns |-> <<<<"(", "p", "a", "s", "s", "e", "d", ")">>>>,
     caseSensitive |-> FALSE, expected |-> TRUE],
    [text |-> <<"1", "0", "0", "%", " ", "c", "o", "m", "p", "l", "e", "t", "e">>,
     patterns |-> <<<<"1", "0", "0", "%">>>>,
     caseSensitive |-> FALSE, expected |-> TRUE],
    [text |-> <<"A", "n", "y", " ", "t", "e", "x", "t">>,
     patterns |-> <<>>,
     caseSensitive |-> FALSE, expected |-> FALSE],
    [text |-> <<"r", "e", "n", "o", "m", "e", "r", "g", "e", "n", "c", "y">>,
     patterns |-> <<<<"n", "o", "m", "e", "r", "g", "e">>>>,
     caseSensitive |-> FALSE, expected |-> TRUE]
}

Paths == StringsOver(PathChars, MaxFamilyPathLen)

\* Names of path segments for the longer rules.
Segments == {<<"a">>, <<".">>, <<"+">>, <<"a", "a">>, <<"a", ".">>, <<"a", "+">>}

Slash == <<"/">>

\* Rules of the form A/**/B with the paths A/B, A/x/B, A/x/y/B and C/x/B.
MiddleRule(A, B) == A \o <<"/", "*", "*", "/">> \o B
MiddleInputs ==
    UNION {
        {<<A \o Slash \o B, <<MiddleRule(A, B)>>>>}
        \cup {<<C \o Slash \o x \o Slash \o B, <<MiddleRule(A, B)>>>> :
                 C \in Segments, x \in Segments}
        \cup {<<A \o Slash \o x \o Slash \o y \o Slash \o B, <<MiddleRule(A, B)>>>> :
                 x \in Segments, y \in Segments}
        : A \in {<<"a">>, <<".">>, <<"a", ".">>}, B \in {<<"a">>, <<"a", ".">>}}

\* Rules of the form P/** with every short path and the paths P/x, P/x/y.
PrefixRule(P) == P \o <<"/", "*", "*">>
PrefixInputs ==
    UNION {
        {<<p, <<PrefixRule(P)>>>> : p \in Paths}
        \cup {<<P \o Slash \o x, <<PrefixRule(P)>>>> : x \in Segments \cup {<<>>}}
        \cup {<<P \o Slash \o x \o Slash \o y, <<PrefixRule(P)>>>> :
                 x \in Segments, y \in Segments}
        \cup {<<DotSlash \o P \o Slash \o x, <<PrefixRule(P)>>>> : x \in Segments}
        \cup {<<x \o P \o Slash \o y, <<PrefixRule(P)>>>> : x \in Segments, y \in Segments}
        : P \in Segments}

\* A path against itself as the rule, with "./" in front of either.
SelfInputs ==
    UNION {{<<p, <<p>>>>, <<DotSlash \o p, <<p>>>>, <<p, <<DotSlash \o p>>>>} : p \in Paths}

\* Paths around the rules of the unit tests that the tests do not try.
ExtraInputs ==
    {<<<<".", "/", "t", "e", "s", "t", ".", "h", "t", "m", "l">>,
       <<(<<"*", ".", "h", "t", "m", "l">>)>>>>,
     <<<<"t", "e", "s", "t", "/", ".", "m", "d">>,
       <<(<<"t", "e", "s", "t", "?", ".", "m", "d">>)>>>>,
     <<<<"f", "i", "l", "e", "X", "t", "e", "s", "t", ".", "t", "s">>,
       <<(<<"*", ".", "t", "e", "s", "t", ".", "t", "s">>)>>>>,
     <<<<"f", "i", "l", "e", ".", "t", "e", "s", "t", "X", "t", "s">>,
       <<(<<"*", ".", "t", "e", "s", "t", ".", "t", "s">>)>>>>}

FamilyInputs ==
    {<<t.path, t.rules>> : t \in isIgnoredTests}
    \cup MiddleInputs \cup PrefixInputs \cup SelfInputs \cup ExtraInputs

\* End-to-end scenario D: the pattern in upper case, the content in lower case.
ScenarioD ==
    {<<<<"d", "o", "n", "o", "t", "m", "e", "r", "g", "e">>,
       <<(<<"D", "O", "N", "O", "T", "M", "E", "R", "G", "E">>)>>, cs>> :
        cs \in BOOLEAN}

FixedScanInputs ==
    {<<t.text, t.patterns, t.caseSensitive>> : t \in containsPatternTests}
    \cup ScenarioD

----------------------------------------------------------------------------
(* The state machine: each operation is called once on its arguments.      *)

NotCalled == Returned(FALSE)
NoMatches == Returned(<<>>)

\* isIgnored(filePath, ignorePatterns) is called and returns or throws.
CallIsIgnored ==
    /\ "isIgnored" \notin pc
    /\ filePath # <<"-">>
    /\ ignored' = isIgnored(filePath, ignorePatterns)
    /\ pc' = pc \cup {"isIgnored"}
    /\ UNCHANGED <<filePath, ignorePatterns, text, patterns, caseSensitive,
                   contains, matches, runVars, mainVars>>

\* containsPattern(text, patterns, caseSensitive) is called.
CallContainsPattern ==
    /\ "containsPattern" \notin pc
    /\ text # <<"-">>
    /\ contains' = containsPattern(text, patterns, caseSensitive)
    /\ pc' = pc \cup {"containsPattern"}
    /\ UNCHANGED <<filePath, ignorePatterns, ignored, text, patterns,
                   caseSensitive, matches, runVars, mainVars>>

\* findPatternMatches(text, patterns, caseSensitive) is called.
CallFindPatternMatches ==
    /\ "findPatternMatches" \notin pc
    /\ text # <<"-">>
    /\ matches' = findPatternMatches(text, patterns, caseSensitive)
    /\ pc' = pc \cup {"findPatternMatches"}
    /\ UNCHANGED <<filePath, ignorePatterns, ignored, text, patterns,
                   caseSensitive, contains, runVars, mainVars>>

\* No argument: the operation is not part of the run.
Absent == <<"-">>

InitIgnore ==
    /\ pc = {}
    /\ \/ \E n \in 0..MaxIgnoreSize :
             /\ filePath \in [1..n -> PathChars]
             /\ ignorePatterns \in ListsWithin(PathChars, MaxIgnoreSize - n)
       \/ \E n \in 0..MaxPairSize :
             /\ filePath \in [1..n -> PathChars]
             /\ \E r \in StringsOver(PathChars, MaxPairSize - n) : ignorePatterns = <<r>>
       \/ \E in \in FamilyInputs :
             filePath = in[1] /\ ignorePatterns = in[2]
    /\ ignored = NotCalled
    /\ text = Absent /\ patterns = <<>> /\ caseSensitive = FALSE
    /\ contains = NotCalled /\ matches = NoMatches
    /\ NoRun

InitScan ==
    /\ pc = {}
    /\ \/ \E n \in 0..MaxScanSize :
             /\ text \in [1..n -> TextChars]
             /\ patterns \in ListsWithin(TextChars, MaxScanSize - n)
             /\ caseSensitive \in BOOLEAN
       \/ \E in \in FixedScanInputs :
             text = in[1] /\ patterns = in[2] /\ caseSensitive = in[3]
    /\ contains = NotCalled /\ matches = NoMatches
    /\ filePath = Absent /\ ignorePatterns = <<>> /\ ignored = NotCalled
    /\ NoRun

NextIgnore == CallIsIgnored
NextScan == CallContainsPattern \/ CallFindPatternMatches

SpecIgnore == InitIgnore /\ [][NextIgnore]_vars
SpecScan == InitScan /\ [][NextScan]_vars

----------------------------------------------------------------------------
(* The run: runGitHubActionsMode and runCliMode, step by step.             *)

\* const config = await loadConfig(...); patterns, caseSensitive and
\* ignorePatterns are derived from it.
LoadConfig ==
    /\ mode = "remote" /\ step = "loadConfig"
    /\ config' = loadConfig(configFile)
    /\ patterns' = toPatterns(config'.nomerge)
    /\ caseSensitive' = config'.caseSensitive
    /\ ignorePatterns' = config'.ignore
    /\ step' = "checkDescription"
    /\ UNCHANGED <<mainVars, engineVars, mode, configFile, description, listing, directory,
                   todo, log, fileMatches, foundInDescription, result>>

\* const foundInDescription = checkDescription(pr.body, patterns, caseSensitive)
CheckDescription ==
    /\ mode = "remote" /\ step = "checkDescription"
    /\ LET found == checkDescription(description, patterns, caseSensitive) IN
       IF found.threw
       THEN step' = "fatal" /\ UNCHANGED foundInDescription
       ELSE step' = "getPullRequestFiles" /\ foundInDescription' = found.value
    /\ UNCHANGED <<mainVars, engineVars, ignorePatterns, patterns, caseSensitive, mode,
                   configFile, config, description, listing, directory, todo, log,
                   fileMatches, result>>

\* const files = await client.getPullRequestFiles(...): a failed request
\* throws out of the run.
GetPullRequestFiles ==
    /\ mode = "remote" /\ step = "getPullRequestFiles"
    /\ IF listing.ok
       THEN step' = "checkFiles" /\ todo' = listing.entries
       ELSE step' = "fatal" /\ UNCHANGED todo
    /\ UNCHANGED <<mainVars, engineVars, ignorePatterns, patterns, caseSensitive, mode,
                   configFile, config, description, listing, directory, log,
                   fileMatches, foundInDescription, result>>

\* One turn of for (const file of files) in checkFiles.
CheckFile ==
    /\ mode = "remote" /\ step = "checkFiles" /\ todo # <<>>
    /\ LET file == Head(todo) IN
       IF isRemoved(file)
       THEN /\ log' = Append(log, Line("skip-deleted", file.filename))
            /\ todo' = Tail(todo)
            /\ UNCHANGED <<step, fileMatches>>
       ELSE IF remoteIsConfigFile(file)
       THEN /\ log' = Append(log, Line("skip-config", file.filename))
            /\ todo' = Tail(todo)
            /\ UNCHANGED <<step, fileMatches>>
       ELSE LET ig == isIgnored(file.filename, ignorePatterns) IN
            IF ig.threw
            THEN step' = "fatal" /\ UNCHANGED <<todo, log, fileMatches>>
            ELSE IF ig.value
            THEN /\ log' = Append(log, Line("skip-ignored", file.filename))
                 /\ todo' = Tail(todo)
                 /\ UNCHANGED <<step, fileMatches>>
            ELSE LET r == scanContent(file.filename, file.content, patterns,
                                      caseSensitive, fileMatches) IN
                 /\ fileMatches' = r.reports
                 /\ log' = log \o r.lines
                 /\ todo' = Tail(todo)
                 /\ UNCHANGED step
    /\ UNCHANGED <<mainVars, engineVars, ignorePatterns, patterns, caseSensitive, mode,
                   configFile, config, description, listing, directory,
                   foundInDescription, result>>

\* checkFiles returns and runGitHubActionsMode builds its CheckResult.
ReturnGitHubActionsMode ==
    /\ mode = "remote" /\ step = "checkFiles" /\ todo = <<>>
    /\ result' = CheckResult(passed(foundInDescription, fileMatches),
                             foundInDescription, fileMatches)
    /\ step' = "done"
    /\ UNCHANGED <<mainVars, engineVars, ignorePatterns, patterns, caseSensitive, mode,
                   configFile, config, description, listing, directory, todo, log,
                   fileMatches, foundInDescription>>

\* An entry still to visit, with the directory that holds it.
Pending(dir, entries) == [n \in 1..Len(entries) |-> [dir |-> dir, entry |-> entries[n]]]

\* await walk(directory, directory): Deno.readDir on the root; a failure
\* throws out of the run.
WalkRoot ==
    /\ mode = "local" /\ step = "checkLocalFiles"
    /\ IF listing.ok
       THEN step' = "walk" /\ todo' = Pending(directory, listing.entries)
       ELSE step' = "fatal" /\ UNCHANGED todo
    /\ UNCHANGED <<mainVars, engineVars, ignorePatterns, patterns, caseSensitive, mode,
                   configFile, config, description, listing, directory, log,
                   fileMatches, foundInDescription, result>>

\* One turn of for await (const entry of Deno.readDir(dir)) in walk. The
\* walk of a subdirectory is awaited before the next entry, so its entries
\* come first; Deno.readDir failing on it throws out of every walk.
WalkEntry ==
    /\ mode = "local" /\ step = "walk" /\ todo # <<>>
    /\ LET dir == Head(todo).dir
           entry == Head(todo).entry
           fullPath == dir \o <<"/">> \o entry.name
           relativePath == removeFirst(fullPath, directory \o <<"/">>)
       IN
       IF entry.kind = "dir"
       THEN IF entry.name \in SkippedDirs
            THEN todo' = Tail(todo) /\ UNCHANGED <<step, log, fileMatches>>
            ELSE IF entry.readable
            THEN /\ todo' = Pending(fullPath, entry.entries) \o Tail(todo)
                 /\ UNCHANGED <<step, log, fileMatches>>
            ELSE step' = "fatal" /\ UNCHANGED <<todo, log, fileMatches>>
       ELSE IF entry.kind = "file"
       THEN IF localIsConfigFile(entry)
            THEN /\ log' = Append(log, Line("skip-config", relativePath))
                 /\ todo' = Tail(todo)
                 /\ UNCHANGED <<step, fileMatches>>
            ELSE LET ig == isIgnored(relativePath, ignorePatterns) IN
                 IF ig.threw
                 THEN step' = "fatal" /\ UNCHANGED <<todo, log, fileMatches>>
                 ELSE IF ig.value
                 THEN /\ log' = Append(log, Line("skip-ignored", relativePath))
                      /\ todo' = Tail(todo)
                      /\ UNCHANGED <<step, fileMatches>>
                 ELSE LET r == scanContent(relativePath, entry.content, patterns,
                                           caseSensitive, fileMatches) IN
                      /\ fileMatches' = r.reports
                      /\ log' = log \o r.lines
                      /\ todo' = Tail(todo)
                      /\ UNCHANGED step
       ELSE todo' = Tail(todo) /\ UNCHANGED <<step, log, fileMatches>>
    /\ UNCHANGED <<mainVars, engineVars, ignorePatterns, patterns, caseSensitive, mode,
                   configFile, config, description, listing, directory,
                   foundInDescription, result>>

\* checkLocalFiles returns and runCliMode builds its CheckResult.
ReturnCliMode ==
    /\ mode = "local" /\ step = "walk" /\ todo = <<>>
    /\ result' = CheckResult(Len(fileMatches) = 0, FALSE, fileMatches)
    /\ step' = "done"
    /\ UNCHANGED <<mainVars, engineVars, ignorePatterns, patterns, caseSensitive, mode,
                   configFile, config, description, listing, directory, todo, log,
                   fileMatches, foundInDescription>>

----------------------------------------------------------------------------
(* Inputs of the runs.                                                     *)

Clean == <<".">>
Dirty == <<"a", "A", "a", " ", "n", "o", "m", "e", "r", "g", "e">>
RunContents == {Content(Clean), Content(Dirty), Unreadable}

Str_a == <<"a">>
Str_b == <<"b">>
Str_b_a == <<"b", "/", "a">>
Str_b_config == <<"b", "/">> \o ConfigFileName
Str_b_starstar == <<"b", "/", "*", "*">>

\* The entries a list of changed files can hold under one name.
RemoteNames == {Str_a, Str_b_a, ConfigFileName, Str_b_config}
RemoteEntries(name) ==
    {GitHubFile(name, "modified", c) : c \in RunContents}
    \cup {GitHubFile(name, "removed", Content(Dirty))}

\* The lists of at most n changed files with distinct names.
RECURSIVE FileLists(_, _)
FileLists(names, n) ==
    IF n = 0 THEN {<<>>}
    ELSE {<<>>} \cup UNION {{<<f>> \o rest : f \in RemoteEntries(x),
                                            rest \in FileLists(names \ {x}, n - 1)} :
                            x \in names}

\* The configuration files of the runs: none, a single pattern, a list of
\* patterns matched case-sensitively with an ignore rule, and an ignore list
\* with a rule that is not a regular expression.
RunConfigFiles ==
    {ConfigFile("fails", "invalid", NoField, NoFlag, NoField),
     ConfigFile("ok", "object", StringField(Str_a), NoFlag, NoField),
     ConfigFile("ok", "object", ListField(<<Str_a, <<"e">>>>), FlagField(TRUE),
                ListField(<<Str_b_starstar>>)),
     ConfigFile("ok", "object", StringField(Str_a), NoFlag,
                ListField(<<Str_a, <<"+">>>>))}

RunDescriptions == {NullBody, Body(Str_a)}

\* The entries a directory can hold under one name. The directory b is
\* tried empty, unreadable, and with files, a .git directory and a symbolic
\* link inside.
Str_git == <<".", "g", "i", "t">>
Str_node_modules == <<"n", "o", "d", "e", "_", "m", "o", "d", "u", "l", "e", "s">>
LocalNames == {Str_a, ConfigFileName, Str_b, Str_git, Str_node_modules}
LocalEntries(name) ==
    IF name \in {Str_a, ConfigFileName} THEN {FileEntry(name, c) : c \in RunContents}
    ELSE IF name = Str_b
    THEN {DirEntry(name, FALSE, <<>>),
          DirEntry(name, TRUE, <<>>),
          DirEntry(name, TRUE, <<FileEntry(Str_a, Content(Dirty))>>),
          DirEntry(name, TRUE, <<FileEntry(Str_a, Unreadable)>>),
          DirEntry(name, TRUE, <<FileEntry(ConfigFileName, Content(Dirty))>>),
          DirEntry(name, TRUE,
                   <<DirEntry(Str_git, TRUE, <<FileEntry(Str_a, Content(Dirty))>>),
                     SymlinkEntry(Str_node_modules),
                     FileEntry(Str_a, Content(Dirty))>>)}
    ELSE {DirEntry(name, TRUE, <<FileEntry(Str_a, Content(Dirty))>>)}

\* The listings of a root directory: at most n entries with distinct names.
RECURSIVE DirLists(_, _)
DirLists(names, n) ==
    IF n = 0 THEN {<<>>}
    ELSE {<<>>} \cup UNION {{<<e>> \o rest : e \in LocalEntries(x),
                                            rest \in DirLists(names \ {x}, n - 1)} :
                            x \in names}

\* The root directory, the case flag and the ignore list of the CLI runs.
CliRuns ==
    {<<(<<".">>), FALSE, <<>>>>,
     <<(<<".">>), TRUE, <<>>>>,
     <<Str_b, FALSE, <<>>>>,
     <<(<<".">>), FALSE, <<Str_b_starstar>>>>,
     <<(<<".">>), FALSE, <<Str_a, <<"+">>>>>>}

\* The descriptions and pattern lists of the description check.
DescriptionChars == {"a", "b", Backtick}
DescriptionPatterns == {<<>>, <<(<<"a", "b">>)>>, <<(<<"a", "a">>)>>,
                        <<Str_b, <<"a", "b">>>>}

\* The fields of a configuration object.
ConfigChars == {"a", "b"}
NomergeFields ==
    {NoField} \cup {StringField(s) : s \in StringsOver(ConfigChars, MaxConfigSize - 1)}
              \cup {ListField(l) : l \in ListsWithin(ConfigChars, MaxConfigSize)}
FlagFields == {NoFlag, FlagField(TRUE), FlagField(FALSE)}
IgnoreFields == {NoField} \cup {ListField(l) : l \in ListsWithin(ConfigChars, MaxConfigSize)}

----------------------------------------------------------------------------
(* The runs as state machines.                                             *)

NoEngine ==
    /\ pc = {} /\ filePath = Absent /\ ignored = NotCalled
    /\ text = Absent /\ contains = NotCalled /\ matches = NoMatches

\* A run in GitHub Actions mode, from loadConfig on.
InitRemote ==
    /\ NoEngine
    /\ mode = "remote" /\ step = "loadConfig"
    /\ configFile \in RunConfigFiles
    /\ \/ /\ description = NullBody
          /\ listing \in {[ok |-> TRUE, entries |-> l] :
                              l \in FileLists(RemoteNames, MaxFiles)}
       \/ /\ description \in RunDescriptions
          /\ listing \in {[ok |-> TRUE, entries |-> l] : l \in FileLists(RemoteNames, 1)}
       \/ /\ description \in RunDescriptions
          /\ listing = [ok |-> FALSE, entries |-> <<>>]
    /\ patterns = <<>> /\ caseSensitive = FALSE /\ ignorePatterns = <<>>
    /\ config = defaultConfig
    /\ directory = <<>>
    /\ todo = <<>> /\ log = <<>> /\ fileMatches = <<>>
    /\ foundInDescription = FALSE
    /\ result = NoResult
    /\ NoMain

\* A run in CLI mode, from the options parsed from the command line on.
InitLocal ==
    /\ NoEngine
    /\ mode = "local" /\ step = "checkLocalFiles"
    /\ patterns = <<Str_a>>
    /\ \E o \in CliRuns :
          directory = o[1] /\ caseSensitive = o[2] /\ ignorePatterns = o[3]
    /\ \/ listing \in {[ok |-> TRUE, entries |-> l] : l \in DirLists(LocalNames, MaxFiles)}
       \/ listing = [ok |-> FALSE, entries |-> <<>>]
    /\ configFile = ConfigFile("fails", "invalid", NoField, NoFlag, NoField)
    /\ config = defaultConfig
    /\ description = NullBody
    /\ todo = <<>> /\ log = <<>> /\ fileMatches = <<>>
    /\ foundInDescription = FALSE
    /\ result = NoResult
    /\ NoMain

InitRun == InitRemote \/ InitLocal

\* The description check on its own, on every short description.
InitDescription ==
    /\ NoEngine
    /\ mode = "remote" /\ step = "checkDescription"
    /\ \/ description = NullBody
       \/ \E t \in StringsOver(DescriptionChars, MaxDescriptionLen) : description = Body(t)
    /\ patterns \in DescriptionPatterns /\ caseSensitive \in BOOLEAN
    /\ ignorePatterns = <<>>
    /\ configFile = ConfigFile("fails", "invalid", NoField, NoFlag, NoField)
    /\ config = defaultConfig
    /\ listing = [ok |-> FALSE, entries |-> <<>>]
    /\ directory = <<>>
    /\ todo = <<>> /\ log = <<>> /\ fileMatches = <<>>
    /\ foundInDescription = FALSE
    /\ result = NoResult
    /\ NoMain

\* loadConfig on its own, on every small configuration file.
InitConfig ==
    /\ NoEngine
    /\ mode = "remote" /\ step = "loadConfig"
    /\ \/ configFile \in {ConfigFile("ok", "object", n, c, i) :
                             n \in NomergeFields, c \in FlagFields, i \in IgnoreFields}
       \/ configFile \in {ConfigFile("ok", j, NoField, NoFlag, NoField) :
                             j \in {"null", "invalid"}}
       \/ configFile \in {ConfigFile(f, "invalid", NoField, NoFlag, NoField) :
                             f \in {"absent", "fails"}}
    /\ patterns = <<>> /\ caseSensitive = FALSE /\ ignorePatterns = <<>>
    /\ config = defaultConfig
    /\ description = NullBody
    /\ listing = [ok |-> FALSE, entries |-> <<>>]
    /\ directory = <<>>
    /\ todo = <<>> /\ log = <<>> /\ fileMatches = <<>>
    /\ foundInDescription = FALSE
    /\ result = NoResult
    /\ NoMain

NextRun ==
    \/ LoadConfig \/ CheckDescription \/ GetPullRequestFiles \/ CheckFile
    \/ ReturnGitHubActionsMode
    \/ WalkRoot \/ WalkEntry \/ ReturnCliMode
NextDescription == CheckDescription
NextConfig == LoadConfig

SpecRun == InitRun /\ [][NextRun]_vars
SpecDescription == InitDescription /\ [][NextDescription]_vars
SpecConfig == InitConfig /\ [][NextConfig]_vars

----------------------------------------------------------------------------
(* parseCliArgs on its own.                                                *)

\* The tokens of a command line: the ten flags, two values and a token that
\* is no flag.
Str_x == <<"x">>
Str_y == <<"y">>
Str_unknown == <<"-", "-", "u", "n", "k", "n", "o", "w", "n">>
CliTokens ==
    HelpFlags \cup NomergeFlags \cup IgnoreFlags \cup CaseSensitiveFlags
        \cup DirectoryFlags \cup {Str_x, Str_y, Str_unknown}

\* Longer command lines: the one of the short-flags test, patterns and
\* ignore rules in turn, and a flag given as the value of another.
LongCommandLines ==
    {<<(<<"-", "n">>), Str_x, <<"-", "i">>, Str_y, <<"-", "c">>>>,
     <<(<<"-", "n">>), Str_y, <<"-", "i">>, Str_x, <<"-", "n">>, Str_x,
       <<"-", "i">>, Str_y>>,
     <<(<<"-", "d">>), <<"-", "n">>, <<"-", "n">>, <<"-", "h">>, <<"-", "c">>>>,
     <<(<<"-", "h">>), <<"-", "i">>, Str_x, <<"-", "d">>, Str_y, <<"-", "n">>>>}

\* parseCliArgs(denoArgs) is called and returns or throws.
CallParseCliArgs ==
    /\ "parseCliArgs" \notin pc
    /\ mode = "none"
    /\ cliOptions' = parseCliArgs(denoArgs)
    /\ pc' = pc \cup {"parseCliArgs"}
    /\ UNCHANGED <<filePath, ignorePatterns, ignored, text, patterns,
                   caseSensitive, contains, matches, runVars, denoArgs, env,
                   exitCode>>

InitCli ==
    /\ pc = {}
    /\ \/ \E n \in 0..MaxArgs : denoArgs \in [1..n -> CliTokens]
       \/ denoArgs \in LongCommandLines
    /\ cliOptions = NotParsed /\ env = "ok" /\ exitCode = {}
    /\ filePath = Absent /\ ignorePatterns = <<>> /\ ignored = NotCalled
    /\ text = Absent /\ patterns = <<>> /\ caseSensitive = FALSE
    /\ contains = NotCalled /\ matches = NoMatches
    /\ mode = "none" /\ step = "none"
    /\ configFile = ConfigFile("fails", "invalid", NoField, NoFlag, NoField)
    /\ config = defaultConfig
    /\ description = NullBody
    /\ listing = [ok |-> FALSE, entries |-> <<>>]
    /\ directory = <<>>
    /\ todo = <<>> /\ log = <<>> /\ fileMatches = <<>>
    /\ foundInDescription = FALSE
    /\ result = NoResult

NextCli == CallParseCliArgs

SpecCli == InitCli /\ [][NextCli]_vars

----------------------------------------------------------------------------
(* main: the mode, the run and the exit code.                              *)

\* Deno.cwd()
Cwd == <<".">>

\* What runGitHubActionsMode finds before it loads the configuration: all it
\* needs, a missing variable, or an event file that cannot be read or parsed.
Environments ==
    {"ok", "no GITHUB_TOKEN", "no GITHUB_EVENT_PATH", "no GITHUB_REPOSITORY",
     "no event"}

\* A fatal error exits with the code of a clean run.
exitStatusFatalIsClean(outcome, res) ==
    IF outcome = "help" THEN 0
    ELSE IF outcome = "fatal" THEN 0
    ELSE IF ~res.passed THEN 1
    ELSE 0

\* The argument of the Deno.exit that main reaches: after printHelp, in the
\* catch, after a result that did not pass, and at the end of the try.
exitStatus(outcome, res) ==
    IF outcome = "help" THEN 0
    ELSE IF outcome = "fatal" THEN 1
    ELSE IF ~res.passed THEN 1
    ELSE 0

\* runGitHubActionsMode up to loadConfig: the three variables are checked
\* and the event file is read and parsed; any failure is thrown.
ReadEnvironment ==
    /\ mode = "remote" /\ step = "environment"
    /\ step' = IF env = "ok" THEN "loadConfig" ELSE "fatal"
    /\ UNCHANGED <<mainVars, engineVars, ignorePatterns, patterns, caseSensitive,
                   mode, configFile, config, description, listing, directory, todo,
                   log, fileMatches, foundInDescription, result>>

\* const options = parseCliArgs(args); if (options.help) ...; then the
\* first lines of runCliMode, which take the run parameters from the options.
ParseCliArgs ==
    /\ mode = "local" /\ step = "parseCliArgs"
    /\ cliOptions' = parseCliArgs(denoArgs)
    /\ IF cliOptions'.threw
       THEN /\ step' = "fatal"
            /\ UNCHANGED <<directory, patterns, caseSensitive, ignorePatterns>>
       ELSE IF cliOptions'.options.help
       THEN /\ step' = "help"
            /\ UNCHANGED <<directory, patterns, caseSensitive, ignorePatterns>>
       ELSE /\ step' = "checkLocalFiles"
            /\ directory' = IF cliOptions'.options.directory.given
                            THEN cliOptions'.options.directory.path
                            ELSE Cwd
            /\ patterns' = cliOptions'.options.patterns
            /\ caseSensitive' = cliOptions'.options.caseSensitive
            /\ ignorePatterns' = cliOptions'.options.ignorePatterns
    /\ UNCHANGED <<engineVars, mode, configFile, config, description, listing,
                   todo, log, fileMatches, foundInDescription, result, denoArgs,
                   env, exitCode>>

\* Deno.exit(...): the process ends with the code.
Exit ==
    /\ step \in {"help", "done", "fatal"}
    /\ exitCode = {}
    /\ exitCode' = {exitStatus(step, result)}
    /\ UNCHANGED <<engineVars, ignorePatterns, patterns, caseSensitive, runVars,
                   denoArgs, cliOptions, env>>

\* The entries of the listings of the runs of main.
MaxMainFiles == 1

\* The command lines of the runs of main: the default pattern, one pattern
\* with the other flags, help alone and after a pattern, and two faulty ones.
Flag_n == <<"-", "n">>
Flag_i == <<"-", "i">>
MainCommandLines ==
    {<<>>,
     <<Flag_n, Str_a>>,
     <<Flag_n, Str_a, <<"-", "c">>>>,
     <<Flag_n, Str_a, <<"-", "d">>, Str_b>>,
     <<Flag_n, Str_a, Flag_i, Str_b_starstar>>,
     <<Flag_n, Str_a, Flag_i, Str_a, Flag_i, <<"+">>>>,
     <<(<<"-", "h">>)>>,
     <<Flag_n, Str_a, <<"-", "-", "h", "e", "l", "p">>>>,
     <<Str_unknown>>,
     <<Flag_n>>}

\* main in GitHub Actions mode.
InitMainRemote ==
    /\ NoEngine
    /\ mode = "remote" /\ step = "environment"
    /\ \/ /\ env = "ok"
          /\ configFile \in RunConfigFiles
          /\ description \in RunDescriptions
          /\ \/ listing \in {[ok |-> TRUE, entries |-> l] :
                                l \in FileLists(RemoteNames, MaxMainFiles)}
             \/ listing = [ok |-> FALSE, entries |-> <<>>]
       \/ /\ env \in Environments \ {"ok"}
          /\ configFile = ConfigFile("fails", "invalid", NoField, NoFlag, NoField)
          /\ description = Body(Str_a)
          /\ listing = [ok |-> TRUE,
                        entries |-> <<GitHubFile(Str_a, "modified", Content(Dirty))>>]
    /\ patterns = <<>> /\ caseSensitive = FALSE /\ ignorePatterns = <<>>
    /\ config = defaultConfig
    /\ directory = <<>>
    /\ todo = <<>> /\ log = <<>> /\ fileMatches = <<>>
    /\ foundInDescription = FALSE
    /\ result = NoResult
    /\ denoArgs = <<>> /\ cliOptions = NotParsed /\ exitCode = {}

\* main in CLI mode.
InitMainLocal ==
    /\ NoEngine
    /\ mode = "local" /\ step = "parseCliArgs"
    /\ denoArgs \in MainCommandLines
    /\ \/ listing \in {[ok |-> TRUE, entries |-> l] :
                          l \in DirLists(LocalNames, MaxMainFiles)}
       \/ listing = [ok |-> FALSE, entries |-> <<>>]
    /\ patterns = <<>> /\ caseSensitive = FALSE /\ ignorePatterns = <<>>
    /\ directory = <<>>
    /\ configFile = ConfigFile("fails", "invalid", NoField, NoFlag, NoField)
    /\ config = defaultConfig
    /\ description = NullBody
    /\ todo = <<>> /\ log = <<>> /\ fileMatches = <<>>
    /\ foundInDescription = FALSE
    /\ result = NoResult
    /\ cliOptions = NotParsed /\ env = "ok" /\ exitCode = {}

InitMain == InitMainRemote \/ InitMainLocal

NextMain == ReadEnvironment \/ ParseCliArgs \/ NextRun \/ Exit

SpecMain == InitMain /\ [][NextMain]_vars


----------------------------------------------------------------------------
(* What the claims compare the operations with: substring search done      *)
(* directly on the characters, with no regular expression involved.        *)

SameLetter(x, y) == x = y \/ <<x, y>> \in CasePairs \/ <<y, x>> \in CasePairs

CaseVariant(s1, s2) ==
    /\ Len(s1) = Len(s2)
    /\ \A i \in 1..Len(s1) : SameLetter(s1[i], s2[i])

ContainsVariant(s, sub) ==
    \E i \in 0..(Len(s) - Len(sub)) : CaseVariant(SubSeq(s, i + 1, i + Len(sub)), sub)

HasMeta(p) == \E i \in 1..Len(p) : p[i] \in {".", "$", "(", ")"}

\* The substrings of t at the leftmost non-overlapping occurrences of p,
\* scanning from position from.
RECURSIVE Occurrences(_, _, _, _)
Occurrences(t, p, cs, from) ==
    IF from + Len(p) > Len(t) THEN <<>>
    ELSE LET cand == SubSeq(t, from + 1, from + Len(p)) IN
         IF (IF cs THEN cand = p ELSE CaseVariant(cand, p))
         THEN <<cand>> \o Occurrences(t, p, cs, from + (IF Len(p) = 0 THEN 1 ELSE Len(p)))
         ELSE Occurrences(t, p, cs, from + 1)

RECURSIVE SumCounts(_)
SumCounts(ms) == IF ms = <<>> THEN 0 ELSE Head(ms).count + SumCounts(Tail(ms))

RECURSIVE SumOccurrences(_, _, _, _)
SumOccurrences(t, pats, cs, i) ==
    IF i > Len(pats) THEN 0
    ELSE Len(Occurrences(t, pats[i], cs, 0)) + SumOccurrences(t, pats, cs, i + 1)

\* How many occurrences in t, over the positions of the list that hold the
\* pattern p, read exactly as the text a.
OccurrencesAs(t, pats, cs, p, a) ==
    LET hits == {<<i, j>> \in (1..Len(pats)) \X (1..(Len(t) + 1)) :
                    /\ pats[i] = p
                    /\ j <= Len(Occurrences(t, p, cs, 0))
                    /\ Occurrences(t, p, cs, 0)[j] = a}
    IN Cardinality(hits)

----------------------------------------------------------------------------
(* Claims about the Pattern Scanner (specification SpecScan).              *)

\* C1: with caseSensitive = true, containsPattern returns true exactly when
\* at least one pattern of the list occurs in the text as a literal
\* substring; a metacharacter of a pattern matches only itself.
LiteralSubstringMatch ==
    ("containsPattern" \in pc /\ caseSensitive) =>
        contains = Returned(\E i \in 1..Len(patterns) : Contains(text, patterns[i]))

\* A case-sensitive call that found a pattern holding a metacharacter.
WitnessMetacharFound ==
    /\ "containsPattern" \in pc /\ caseSensitive
    /\ contains = Returned(TRUE)
    /\ \E i \in 1..Len(patterns) : HasMeta(patterns[i]) /\ Contains(text, patterns[i])
    /\ \A i \in 1..Len(patterns) : HasMeta(patterns[i])

GroupedByPatternAndCasing ==
    "findPatternMatches" \in pc =>
        LET ms == matches.value IN
        /\ ~matches.threw
        /\ \A m, n \in 1..Len(ms) :
              (ms[m].pattern = ms[n].pattern /\ ms[m].actualText = ms[n].actualText)
                  => m = n
        /\ {<<ms[n].pattern, ms[n].actualText>> : n \in 1..Len(ms)}
              = UNION {{<<patterns[i], Occurrences(text, patterns[i], caseSensitive, 0)[j]>> :
                           j \in 1..Len(Occurrences(text, patterns[i], caseSensitive, 0))} :
                       i \in 1..Len(patterns)}
        /\ \A n \in 1..Len(ms) :
              ms[n].count = OccurrencesAs(text, patterns, caseSensitive,
                                          ms[n].pattern, ms[n].actualText)
        /\ caseSensitive => \A n \in 1..Len(ms) : ms[n].actualText = ms[n].pattern

\* A case-insensitive call that returned two casings of one pattern, one of
\* them found more than once.
WitnessTwoCasings ==
    /\ "findPatternMatches" \in pc /\ ~caseSensitive
    /\ \E m, n \in 1..Len(matches.value) :
          /\ matches.value[m].pattern = matches.value[n].pattern
          /\ matches.value[m].actualText # matches.value[n].actualText
          /\ matches.value[m].count >= 2

\* C10: the counts of the entries returned by findPatternMatches add up to
\* the number of non-overlapping occurrences in the text, each pattern of the
\* list scanned from left to right on its own.
CountsSumToOccurrences ==
    "findPatternMatches" \in pc =>
        /\ ~matches.threw
        /\ SumCounts(matches.value) = SumOccurrences(text, patterns, caseSensitive, 1)

\* A call with two patterns that both occur, one of them more than once.
WitnessSeveralCounts ==
    /\ "findPatternMatches" \in pc
    /\ Len(patterns) = 2 /\ patterns[1] # patterns[2]
    /\ Len(matches.value) >= 2
    /\ \E n \in 1..Len(matches.value) : matches.value[n].count >= 2
    /\ SumCounts(matches.value) >= 3

\* The pairs (pattern, text found) in the order the scan meets them: the
\* patterns in the order of the list, the occurrences of each from left to
\* right.
RECURSIVE Encounters(_, _, _, _)
Encounters(t, pats, cs, i) ==
    IF i > Len(pats) THEN <<>>
    ELSE LET occ == Occurrences(t, pats[i], cs, 0) IN
         [j \in 1..Len(occ) |-> <<pats[i], occ[j]>>] \o Encounters(t, pats, cs, i + 1)

\* A sequence without the later repetitions of its elements.
RECURSIVE FirstSeen(_)
FirstSeen(s) ==
    IF s = <<>> THEN <<>>
    ELSE LET init == FirstSeen(SubSeq(s, 1, Len(s) - 1))
             last == s[Len(s)]
         IN IF \E n \in 1..Len(init) : init[n] = last THEN init ELSE Append(init, last)

\* C11: the list returned by findPatternMatches holds the distinct pairs
\* (pattern, text found) in the order of their first encounter, patterns in
\* the order given and occurrences from left to right; a later occurrence
\* of a pair already seen does not move its entry.
FirstEncounterOrder ==
    "findPatternMatches" \in pc =>
        /\ ~matches.threw
        /\ [n \in 1..Len(matches.value) |->
              <<matches.value[n].pattern, matches.value[n].actualText>>]
              = FirstSeen(Encounters(text, patterns, caseSensitive, 1))

\* A call where the first pair met is met again after a second pair was
\* first met, and is still the first entry of the list.
WitnessSeenAgainLater ==
    /\ "findPatternMatches" \in pc
    /\ Len(matches.value) >= 2
    /\ matches.value[1].count >= 2
    /\ LET enc == Encounters(text, patterns, caseSensitive, 1) IN
       \E k, l, m \in 1..Len(enc) :
          /\ k < l /\ l < m
          /\ enc[k] = enc[m] /\ enc[k] # enc[l]
          /\ enc[k] = <<matches.value[1].pattern, matches.value[1].actualText>>

NoEmptyPattern(pats) == \A i \in 1..Len(pats) : pats[i] # <<>>

\* C12 as stated: for an empty pattern list and for the empty text, with any
\* pattern list, containsPattern returns false and findPatternMatches returns
\* the empty list, neither throwing.
EmptyInputsNeverMatch ==
    (patterns = <<>> \/ text = <<>>) =>
        /\ "containsPattern" \in pc => contains = Returned(FALSE)
        /\ "findPatternMatches" \in pc => matches = Returned(<<>>)

\* C12, amended: the same for an empty pattern list with any text, and for
\* the empty text with any list of non-empty patterns; no call of the two
\* operations throws.
EmptyInputsNeverMatchNonEmptyPatterns ==
    /\ ~contains.threw /\ ~matches.threw
    /\ (patterns = <<>> \/ (text = <<>> /\ NoEmptyPattern(patterns))) =>
          /\ "containsPattern" \in pc => contains = Returned(FALSE)
          /\ "findPatternMatches" \in pc => matches = Returned(<<>>)

\* Both operations have returned for the empty text and a list of two
\* non-empty patterns.
WitnessEmptyTextScanned ==
    /\ pc = {"containsPattern", "findPatternMatches"}
    /\ text = <<>> /\ Len(patterns) = 2 /\ NoEmptyPattern(patterns)
    /\ contains = Returned(FALSE) /\ matches = Returned(<<>>)

----------------------------------------------------------------------------
(* What the claims compare isIgnored with: the glob dialect of the         *)
(* documentation, matched directly on the characters.                      *)

GlobWildcards == {"*", "?"}

\* Characters that a rule means literally and that the translation hands to
\* the regular expression as literals too.
PlainChar(c) ==
    c \notin {"*", "?", "+", "^", "$", "{", "}", "(", ")", "|", "[", "]", "\\"}

PlainString(s) == \A i \in 1..Len(s) : PlainChar(s[i])
NoSlash(s) == \A i \in 1..Len(s) : s[i] # "/"
GlobLiteral(s) == \A i \in 1..Len(s) : s[i] \notin GlobWildcards

endsWith(s, suffix) ==
    /\ Len(s) >= Len(suffix)
    /\ SubSeq(s, Len(s) - Len(suffix) + 1, Len(s)) = suffix

\* The rule matches the whole path: "**" any run of characters, "*" any run
\* without "/", "?" one character other than "/", anything else itself.
RECURSIVE GlobMatches(_, _)
GlobMatches(r, p) ==
    IF r = <<>> THEN p = <<>>
    ELSE IF Len(r) >= 2 /\ r[1] = "*" /\ r[2] = "*"
         THEN \E k \in 0..Len(p) : GlobMatches(SubSeq(r, 3, Len(r)), SubSeq(p, k + 1, Len(p)))
    ELSE IF r[1] = "*"
         THEN \E k \in 0..Len(p) :
                 /\ NoSlash(SubSeq(p, 1, k))
                 /\ GlobMatches(Tail(r), SubSeq(p, k + 1, Len(p)))
    ELSE IF r[1] = "?"
         THEN p # <<>> /\ p[1] # "/" /\ GlobMatches(Tail(r), Tail(p))
    ELSE p # <<>> /\ p[1] = r[1] /\ GlobMatches(Tail(r), Tail(p))

\* The path up to its first "/".
RECURSIVE FirstSegment(_)
FirstSegment(p) ==
    IF p = <<>> \/ Head(p) = "/" THEN <<>> ELSE <<Head(p)>> \o FirstSegment(Tail(p))

\* Every "." replaced by a character that is plain everywhere.
DotAsLetter(s) == [i \in 1..Len(s) |-> IF s[i] = "." THEN "#" ELSE s[i]]

OneRule == "isIgnored" \in pc /\ Len(ignorePatterns) = 1
np == normalize(filePath)
nr == normalize(ignorePatterns[1])

Str_star_html == <<"*", ".", "h", "t", "m", "l">>
Str_test_q_md == <<"t", "e", "s", "t", "?", ".", "m", "d">>
Str_star_test_ts == <<"*", ".", "t", "e", "s", "t", ".", "t", "s">>

----------------------------------------------------------------------------
(* Claims about the Path Matcher (specification SpecIgnore).               *)

\* C3: isIgnored(path, rules) is true exactly when at least one rule of the
\* list ignores the path on its own; so it is false for the empty list, and
\* neither the order of the rules nor a rule that does not match changes it.
AnyRuleIgnores ==
    "isIgnored" \in pc =>
        ignored = Returned(\E i \in 1..Len(ignorePatterns) :
                              isIgnored(filePath, <<ignorePatterns[i]>>) = Returned(TRUE))

\* C4: for a rule A/**/B, isIgnored is true for A/B, for A/x/B and for
\* A/x/y/B, and false for a path whose first segment is not A.
DoubleStarInMiddle ==
    OneRule =>
        \A k \in 1..(Len(nr) - 5) :
            LET A == SubSeq(nr, 1, k)
                B == SubSeq(nr, k + 5, Len(nr))
            IN (/\ SubSeq(nr, k + 1, k + 4) = <<"/", "*", "*", "/">>
                /\ PlainString(A) /\ NoSlash(A) /\ PlainString(B) /\ NoSlash(B))
               =>
               /\ np = A \o Slash \o B => ignored = Returned(TRUE)
               /\ (/\ Len(np) >= Len(A) + Len(B) + 2
                   /\ startsWith(np, A \o Slash) /\ endsWith(np, Slash \o B))
                     => ignored = Returned(TRUE)
               /\ FirstSegment(np) # A => ignored = Returned(FALSE)

\* C5 (as claimed): "*" matches zero or more characters other than "/" and
\* "?" exactly one character other than "/"; the rule *.html never ignores a
\* path containing "/", and test?.md ignores test1.md but neither test.md
\* nor test12.md.
WildcardsStopAtSlashAnyPath ==
    OneRule =>
        /\ \A k \in 1..Len(nr) :
              LET X == SubSeq(nr, 1, k - 1)
                  Y == SubSeq(nr, k + 1, Len(nr))
                  fits == /\ Len(np) >= Len(X) + Len(Y)
                          /\ startsWith(np, X) /\ endsWith(np, Y)
                  mid == SubSeq(np, Len(X) + 1, Len(np) - Len(Y))
              IN (PlainString(X) /\ PlainString(Y)) =>
                 /\ nr[k] = "*" => ignored = Returned(fits /\ NoSlash(mid))
                 /\ nr[k] = "?" => ignored = Returned(fits /\ Len(mid) = 1 /\ NoSlash(mid))
        /\ (ignorePatterns[1] = Str_star_html /\ Contains(filePath, Slash))
              => ignored = Returned(FALSE)
        /\ ignorePatterns[1] = Str_test_q_md =>
              /\ filePath = <<"t", "e", "s", "t", "1", ".", "m", "d">>
                    => ignored = Returned(TRUE)
              /\ filePath \in {<<"t", "e", "s", "t", ".", "m", "d">>,
                               <<"t", "e", "s", "t", "1", "2", ".", "m", "d">>}
                    => ignored = Returned(FALSE)

\* C5 (amended): the same, on the path with one leading "./" stripped: the
\* rule *.html never ignores a path that still contains "/" after that.
WildcardsStopAtSlash ==
    OneRule =>
        /\ \A k \in 1..Len(nr) :
              LET X == SubSeq(nr, 1, k - 1)
                  Y == SubSeq(nr, k + 1, Len(nr))
                  fits == /\ Len(np) >= Len(X) + Len(Y)
                          /\ startsWith(np, X) /\ endsWith(np, Y)
                  mid == SubSeq(np, Len(X) + 1, Len(np) - Len(Y))
              IN (PlainString(X) /\ PlainString(Y)) =>
                 /\ nr[k] = "*" => ignored = Returned(fits /\ NoSlash(mid))
                 /\ nr[k] = "?" => ignored = Returned(fits /\ Len(mid) = 1 /\ NoSlash(mid))
        /\ (ignorePatterns[1] = Str_star_html /\ Contains(np, Slash))
              => ignored = Returned(FALSE)
        /\ ignorePatterns[1] = Str_test_q_md =>
              /\ filePath = <<"t", "e", "s", "t", "1", ".", "m", "d">>
                    => ignored = Returned(TRUE)
              /\ filePath \in {<<"t", "e", "s", "t", ".", "m", "d">>,
                               <<"t", "e", "s", "t", "1", "2", ".", "m", "d">>}
                    => ignored = Returned(FALSE)

\* A rule X*Y that ignored a path through its star, and not by equality.
WitnessStarMatched ==
    /\ OneRule /\ ignored = Returned(TRUE) /\ np # nr
    /\ \E k \in 1..Len(nr) :
          /\ nr[k] = "*"
          /\ PlainString(SubSeq(nr, 1, k - 1)) /\ PlainString(SubSeq(nr, k + 1, Len(nr)))
          /\ Len(nr) >= 3 /\ Len(np) > Len(nr)

\* C6: a rule P/** ignores every path that starts with P/ and no other
\* path, paths taken with one leading "./" stripped; a rule of plain
\* characters and wildcards never ignores a path of which it matches only a
\* part.
PrefixRuleIgnoresSubtree ==
    OneRule =>
        /\ \A k \in 0..(Len(nr) - 3) :
              LET P == SubSeq(nr, 1, k) IN
              (nr = PrefixRule(P) /\ GlobLiteral(P))
                 => ignored = Returned(startsWith(np, P \o Slash))
        /\ (\A i \in 1..Len(nr) : PlainChar(nr[i]) \/ nr[i] \in GlobWildcards)
              => (ignored = Returned(TRUE) => GlobMatches(nr, np))

\* C7 (as claimed): for every path p, isIgnored(p, [p]), isIgnored("./" + p, [p])
\* and isIgnored(p, ["./" + p]) are true, whatever characters p contains.
SelfRuleIgnoresAnyPath ==
    OneRule =>
        /\ filePath = ignorePatterns[1] => ignored = Returned(TRUE)
        /\ filePath = DotSlash \o ignorePatterns[1] => ignored = Returned(TRUE)
        /\ ignorePatterns[1] = DotSlash \o filePath => ignored = Returned(TRUE)

\* C7 (amended): isIgnored(p, [p]) is true for every path p; isIgnored("./" + p, [p])
\* and isIgnored(p, ["./" + p]) are true for every p that does not itself
\* start with "./" (only one leading "./" is stripped).
SelfRuleIgnores ==
    OneRule =>
        /\ filePath = ignorePatterns[1] => ignored = Returned(TRUE)
        /\ (filePath = DotSlash \o ignorePatterns[1]
            /\ ~startsWith(ignorePatterns[1], DotSlash)) => ignored = Returned(TRUE)
        /\ (ignorePatterns[1] = DotSlash \o filePath
            /\ ~startsWith(filePath, DotSlash)) => ignored = Returned(TRUE)

\* A path "./" + p ignored by the rule p, p holding a character that is
\* special in a glob or in a regular expression.
WitnessDotSlashSelf ==
    /\ OneRule /\ ignored = Returned(TRUE)
    /\ filePath = DotSlash \o ignorePatterns[1]
    /\ \E i \in 1..Len(ignorePatterns[1]) : ignorePatterns[1][i] \in {"*", "?", "+"}

\* C8: a "." of a rule matches only a "." of the path: a rule of plain
\* characters and dots ignores only the path equal to it, a rule ignores a
\* path exactly as it would if every dot of both were one and the same
\* letter, and *.test.ts ignores file.test.ts but no path that has another
\* character where the rule has a dot.
DotIsLiteral ==
    OneRule =>
        /\ (PlainString(nr) /\ GlobLiteral(nr)) => ignored = Returned(np = nr)
        /\ (~startsWith(filePath, DotSlash) /\ ~startsWith(ignorePatterns[1], DotSlash))
              => ignored = isIgnored(DotAsLetter(filePath), <<DotAsLetter(ignorePatterns[1])>>)
        /\ ignorePatterns[1] = Str_star_test_ts =>
              /\ filePath = <<"f", "i", "l", "e", ".", "t", "e", "s", "t", ".", "t", "s">>
                    => ignored = Returned(TRUE)
              /\ filePath \in {<<"f", "i", "l", "e", ".", "s", "p", "e", "c", ".", "t", "s">>,
                               <<"f", "i", "l", "e", "X", "t", "e", "s", "t", ".", "t", "s">>,
                               <<"f", "i", "l", "e", ".", "t", "e", "s", "t", "X", "t", "s">>}
                    => ignored = Returned(FALSE)

\* A rule with a wildcard and a dot that ignored a path through the
\* regular expression, and one with a dot that did not ignore a path of the
\* same length.
WitnessDotMatched ==
    /\ OneRule /\ ignored = Returned(TRUE) /\ np # nr
    /\ Contains(nr, <<".">>) /\ ~GlobLiteral(nr)
    /\ Contains(np, <<".">>)

----------------------------------------------------------------------------
(* What the claims compare a scan with: the files of the input, in input   *)
(* order, and the files among them that hold a pattern.                    *)

Source(path, content, skipped) ==
    [path |-> path, content |-> content, skipped |-> skipped]

\* The regular files of a tree in the order of enumeration, each with its
\* path below the root; the files below a directory named .git or
\* node_modules are left out.
RECURSIVE TreeFiles(_, _)
TreeFiles(prefix, entries) ==
    IF entries = <<>> THEN <<>>
    ELSE LET e == Head(entries)
             here == IF e.kind = "file"
                     THEN <<Source(prefix \o e.name, e.content,
                                   e.name = ConfigFileName)>>
                     ELSE IF e.kind = "dir" /\ e.name \notin {Str_git, Str_node_modules}
                     THEN TreeFiles(prefix \o e.name \o <<"/">>, e.entries)
                     ELSE <<>>
         IN here \o TreeFiles(prefix, Tail(entries))

\* The files of the input in input order; skipped tells the files that the
\* mode leaves out before any ignore rule is tried.
Sources ==
    IF mode = "remote"
    THEN [n \in 1..Len(listing.entries) |->
             Source(listing.entries[n].filename, listing.entries[n].content,
                    listing.entries[n].status = "removed"
                        \/ listing.entries[n].filename = ConfigFileName)]
    ELSE TreeFiles(<<>>, listing.entries)

HasOccurrence(content) ==
    /\ content.ok
    /\ \E i \in 1..Len(patterns) :
          Occurrences(content.text, patterns[i], caseSensitive, 0) # <<>>

ReportedPaths == [n \in 1..Len(fileMatches) |-> fileMatches[n].filename]

Reported(path) == \E n \in 1..Len(fileMatches) : fileMatches[n].filename = path

Logged(event, path) == \E k \in 1..Len(log) : log[k] = Line(event, path)

RECURSIVE IsSubsequence(_, _)
IsSubsequence(s, t) ==
    IF s = <<>> THEN TRUE
    ELSE IF t = <<>> THEN FALSE
    ELSE IF Head(s) = Head(t) THEN IsSubsequence(Tail(s), Tail(t))
    ELSE IsSubsequence(s, Tail(t))

----------------------------------------------------------------------------
(* Claims about the File Walker and the verdict (specification SpecRun).   *)

\* C13: every report of a scan belongs to a file of the input whose content
\* holds a pattern, has at least one entry, counts of at least 1 and a
\* totalCount equal to the sum of its counts; a file that was scanned and
\* holds no pattern has no report.
ReportsOnlyForMatches ==
    /\ \A n \in 1..Len(fileMatches) :
          LET r == fileMatches[n] IN
          /\ \E k \in 1..Len(Sources) :
                Sources[k].path = r.filename /\ HasOccurrence(Sources[k].content)
          /\ Len(r.matches) >= 1
          /\ \A m \in 1..Len(r.matches) : r.matches[m].count >= 1
          /\ r.totalCount = SumCounts(r.matches)
    /\ \A k \in 1..Len(Sources) :
          (Logged("checking", Sources[k].path) /\ ~HasOccurrence(Sources[k].content))
              => ~Reported(Sources[k].path)

\* A finished scan with a report of two entries and a total of three, and a
\* scanned file without a report.
WitnessReportAndCleanFile ==
    /\ step = "done"
    /\ \E n \in 1..Len(fileMatches) :
          Len(fileMatches[n].matches) = 2 /\ fileMatches[n].totalCount = 3
    /\ \E k \in 1..Len(Sources) :
          /\ Logged("clean", Sources[k].path)
          /\ ~Reported(Sources[k].path)

\* C14: the verdict of a finished run is passed = NOT(description matched)
\* AND (no file report), over the description flag and the reports of the
\* run; in CLI mode the description flag is false.
VerdictFromFlagAndReports ==
    step = "done" =>
        /\ result.foundInDescription = foundInDescription
        /\ result.foundInFiles = fileMatches
        /\ result.passed = (~result.foundInDescription /\ result.foundInFiles = <<>>)
        /\ mode = "local" =>
              (~result.foundInDescription /\ result.passed = (result.foundInFiles = <<>>))

\* A finished remote run that failed on its description alone.
WitnessDescriptionAlone ==
    /\ step = "done" /\ mode = "remote"
    /\ result.foundInDescription /\ result.foundInFiles = <<>>
    /\ ~result.passed
    /\ Len(listing.entries) >= 1

\* C15: in remote-list mode an entry that is removed, that is the reserved
\* configuration file, or for whose path isIgnored is true, is neither
\* fetched nor reported, whatever its content: an entry that is fetched or
\* reported is none of the three.
SkippedEntriesNeverFetched ==
    mode = "remote" =>
        \A n \in 1..Len(listing.entries) :
            LET f == listing.entries[n] IN
            (Logged("checking", f.filename) \/ Reported(f.filename))
                => /\ f.status # "removed"
                   /\ f.filename # ConfigFileName
                   /\ isIgnored(f.filename, ignorePatterns) # Returned(TRUE)

\* A remote run that passed over a removed file, the configuration file and
\* an ignored file, each holding a forbidden pattern.
WitnessSkippedDirtyFiles ==
    /\ step = "done" /\ mode = "remote" /\ result.passed
    /\ Len(listing.entries) = 3
    /\ \A n \in 1..3 : listing.entries[n].content = Content(Dirty)
    /\ Logged("skip-deleted", Str_a)
    /\ Logged("skip-config", ConfigFileName)
    /\ Logged("skip-ignored", Str_b_a)

\* C16: the two modes skip the same paths as the configuration file: a path
\* that the local walk skips as the configuration file is one the remote
\* scan skips as such, and a path the local walk goes on to try against the
\* ignore rules is one the remote scan does not skip as such.
SameConfigFileSkip ==
    mode = "local" =>
        \A k \in 1..Len(log) :
            /\ log[k].event = "skip-config"
                  => remoteIsConfigFile(GitHubFile(log[k].path, "modified", Unreadable))
            /\ log[k].event \in {"skip-ignored", "checking"}
                  => ~remoteIsConfigFile(GitHubFile(log[k].path, "modified", Unreadable))

\* A file of the input that a scan reads: not left out by the mode and not
\* ignored.
Scanned(src) == ~src.skipped /\ isIgnored(src.path, ignorePatterns) = Returned(FALSE)

\* The reports expected of the input once the files whose content cannot be
\* obtained are taken out of it.
ExpectedWithoutUnreadable(src) ==
    src.content.ok /\ Scanned(src) /\ HasOccurrence(src.content)

RECURSIVE ExpectedPaths(_)
ExpectedPaths(srcs) ==
    IF srcs = <<>> THEN <<>>
    ELSE (IF ExpectedWithoutUnreadable(Head(srcs)) THEN <<Head(srcs).path>> ELSE <<>>)
         \o ExpectedPaths(Tail(srcs))

\* The entry at which a run stopped is one that cannot be walked at all: an
\* unreadable directory, or a path on which isIgnored throws.
StoppedOutsideContent ==
    /\ todo # <<>>
    /\ IF mode = "remote"
       THEN isIgnored(Head(todo).filename, ignorePatterns).threw
       ELSE \/ Head(todo).entry.kind = "dir" /\ ~Head(todo).entry.readable
            \/ /\ Head(todo).entry.kind = "file"
               /\ isIgnored(removeFirst(Head(todo).dir \o <<"/">> \o Head(todo).entry.name,
                                        directory \o <<"/">>),
                            ignorePatterns).threw

\* C17: a file whose content cannot be obtained is skipped with no report,
\* the reports of a finished scan are those of the input without such
\* files, and a run is never stopped by such a file: it stops only where
\* the list of files cannot be had or an entry cannot be walked.
ContentFailureSkipsOneFile ==
    /\ \A k \in 1..Len(log) :
          log[k].event = "could-not-check" => ~Reported(log[k].path)
    /\ step = "done" =>
          ReportedPaths = ExpectedPaths(Sources)
    /\ step = "fatal" => (~listing.ok \/ StoppedOutsideContent)
    /\ (step \in {"checkFiles", "walk"} /\ log # <<>>
            /\ log[Len(log)].event = "could-not-check")
          => \E k \in 1..Len(Sources) :
                Sources[k].path = log[Len(log)].path /\ ~Sources[k].content.ok

\* A finished scan that reported a file, failed to read the next one and
\* reported the one after it.
WitnessFailureBetweenReports ==
    /\ step = "done"
    /\ Len(fileMatches) = 2
    /\ \E i, j, k \in 1..Len(log) :
          /\ i < j /\ j < k
          /\ log[i].event = "found" /\ log[j].event = "could-not-check"
          /\ log[k].event = "found"

\* C18: the reports of a scan are in input order: their paths are a
\* subsequence of the paths of the input files, and no path is reported
\* twice.
ReportsInInputOrder ==
    /\ IsSubsequence(ReportedPaths,
                     [k \in 1..Len(Sources) |-> Sources[k].path])
    /\ \A m, n \in 1..Len(fileMatches) :
          fileMatches[m].filename = fileMatches[n].filename => m = n

\* A finished scan whose two reports are in input order and not in the
\* order of their names.
WitnessNotSortedByName ==
    /\ step = "done"
    /\ Len(fileMatches) = 2
    /\ fileMatches[1].filename = Str_b_a
    /\ fileMatches[2].filename = Str_a

----------------------------------------------------------------------------
(* What the claims compare the description check with: the description     *)
(* with every piece of code replaced by a mark, found by a direct scan.    *)

CodeMark == "|"

IsFenceAt(t, i) ==
    i + 2 <= Len(t) /\ t[i] = Backtick /\ t[i + 1] = Backtick /\ t[i + 2] = Backtick

\* The index of the first fence at or after i, 0 when there is none.
RECURSIVE NextFence(_, _)
NextFence(t, i) ==
    IF i + 2 > Len(t) THEN 0
    ELSE IF IsFenceAt(t, i) THEN i
    ELSE NextFence(t, i + 1)

\* From index i on: each fenced block, from a fence to the nearest fence
\* after it, becomes a mark.
RECURSIVE MarkFenced(_, _)
MarkFenced(t, i) ==
    IF i > Len(t) THEN <<>>
    ELSE IF IsFenceAt(t, i) /\ NextFence(t, i + 3) # 0
    THEN <<CodeMark>> \o MarkFenced(t, NextFence(t, i + 3) + 3)
    ELSE <<t[i]>> \o MarkFenced(t, i + 1)

\* The index of the first backtick at or after i, 0 when there is none.
RECURSIVE NextBacktick(_, _)
NextBacktick(t, i) ==
    IF i > Len(t) THEN 0
    ELSE IF t[i] = Backtick THEN i
    ELSE NextBacktick(t, i + 1)

\* From index i on: each inline span, a backtick, some text without
\* backticks and a backtick, becomes a mark.
RECURSIVE MarkInline(_, _)
MarkInline(t, i) ==
    IF i > Len(t) THEN <<>>
    ELSE IF t[i] = Backtick /\ NextBacktick(t, i + 1) > i + 1
    THEN <<CodeMark>> \o MarkInline(t, NextBacktick(t, i + 1) + 1)
    ELSE <<t[i]>> \o MarkInline(t, i + 1)

OutsideCode(t) == MarkInline(MarkFenced(t, 1), 1)

OccursIn(t, p, cs) == IF cs THEN Contains(t, p) ELSE ContainsVariant(t, p)

DescriptionChecked == mode = "remote" /\ step = "getPullRequestFiles"

----------------------------------------------------------------------------
(* Claims about the description check (specification SpecDescription) and  *)
(* the configuration (specification SpecConfig).                           *)

\* A pattern that occurs in the description, and only inside its code.
OnlyInsideCode(p) ==
    /\ OccursIn(description.text, p, caseSensitive)
    /\ ~OccursIn(OutsideCode(description.text), p, caseSensitive)

\* C19: fenced code blocks and inline code spans are taken out of the
\* description before the patterns are looked for, so patterns that occur
\* only inside such code do not make the description match; a null or empty
\* description never matches.
CodeInDescriptionNeverMatches ==
    DescriptionChecked =>
        /\ (description.null \/ description.text = <<>>) => ~foundInDescription
        /\ (\A i \in 1..Len(patterns) : OnlyInsideCode(patterns[i]))
              => ~foundInDescription

\* C20 as stated: a string s gives the patterns [s] and a list gives itself;
\* caseSensitive is false when missing; the ignore list is empty when the
\* ignore field is missing.
ParametersFromConfig ==
    (step = "checkDescription" /\ configFile.fetch = "ok" /\ configFile.json = "object") =>
        /\ configFile.nomerge.kind = "string" => patterns = <<configFile.nomerge.s>>
        /\ configFile.nomerge.kind = "list" => patterns = configFile.nomerge.l
        /\ configFile.caseSensitive.kind = "missing" => caseSensitive = FALSE
        /\ configFile.ignore.kind = "missing" => ignorePatterns = <<>>

Str_workflows ==
    <<".", "g", "i", "t", "h", "u", "b", "/", "w", "o", "r", "k", "f", "l", "o",
      "w", "s", "/", "*", "*">>

\* C20, amended: the same for patterns and caseSensitive; the ignore list is
\* the baseline rule .github/workflows/** alone when the ignore field is
\* missing, and that rule followed by the rules of the field otherwise.
ParametersFromConfigWithBaseline ==
    (step = "checkDescription" /\ configFile.fetch = "ok" /\ configFile.json = "object") =>
        /\ configFile.nomerge.kind = "string" => patterns = <<configFile.nomerge.s>>
        /\ configFile.nomerge.kind = "list" => patterns = configFile.nomerge.l
        /\ configFile.caseSensitive.kind = "missing" => caseSensitive = FALSE
        /\ configFile.caseSensitive.kind = "boolean"
              => caseSensitive = configFile.caseSensitive.b
        /\ configFile.ignore.kind = "missing" => ignorePatterns = <<Str_workflows>>
        /\ configFile.ignore.kind = "list"
              => ignorePatterns = <<Str_workflows>> \o configFile.ignore.l

\* A configuration with a list of two patterns, no case flag and two ignore
\* rules has been loaded.
WitnessListConfigLoaded ==
    /\ step = "checkDescription" /\ configFile.fetch = "ok" /\ configFile.json = "object"
    /\ configFile.nomerge.kind = "list" /\ Len(patterns) = 2
    /\ configFile.caseSensitive.kind = "missing"
    /\ configFile.ignore.kind = "list" /\ Len(ignorePatterns) = 3

\* The marks taken out again, the description is the text the check scans.
MarksOnlySeparate ==
    description.null \/
        SelectSeq(OutsideCode(description.text), LAMBDA c : c # CodeMark)
            = cleanedDescription(description.text)

----------------------------------------------------------------------------
(* Failures of the configuration file.                                     *)

\* The configuration file is absent, cannot be fetched or is not parseable.
ConfigUnavailable == configFile.fetch # "ok" \/ configFile.json # "object"

\* C21: when the configuration file is absent, cannot be fetched or is not
\* parseable, loadConfig returns (the run goes on to its next step and is
\* not aborted) and the run has the single pattern "nomerge", matched
\* case-insensitively.
DefaultsWhenConfigUnavailable ==
    (step # "loadConfig" /\ ConfigUnavailable) =>
        /\ step = "checkDescription"
        /\ patterns = <<Nomerge>>
        /\ caseSensitive = FALSE

\* A configuration file that was fetched and holds the JSON text null has
\* been loaded.
WitnessNullConfigLoaded ==
    /\ step = "checkDescription"
    /\ configFile.fetch = "ok" /\ configFile.json = "null"
    /\ patterns = <<Nomerge>>

----------------------------------------------------------------------------
(* Claims about the command line (specification SpecCli).                  *)

AllFlags ==
    HelpFlags \cup NomergeFlags \cup IgnoreFlags \cup CaseSensitiveFlags
        \cup DirectoryFlags
ValueFlags == NomergeFlags \cup IgnoreFlags \cup DirectoryFlags

\* The positions of a command line, from position i on, that hold a flag
\* and not the value of the flag before them.
RECURSIVE FlagPositions(_, _)
FlagPositions(a, i) ==
    IF i > Len(a) THEN {}
    ELSE {i} \cup FlagPositions(a, IF a[i] \in ValueFlags THEN i + 2 ELSE i + 1)

\* The values given to the flags of a set, in order of appearance.
RECURSIVE ValuesOf(_, _, _)
ValuesOf(a, flags, i) ==
    IF i >= Len(a) THEN <<>>
    ELSE (IF i \in FlagPositions(a, 1) /\ a[i] \in flags THEN <<a[i + 1]>> ELSE <<>>)
         \o ValuesOf(a, flags, i + 1)

FlagGiven(a, flags) == \E i \in FlagPositions(a, 1) : a[i] \in flags

CliParsed == "parseCliArgs" \in pc

\* C22: the options parseCliArgs returns hold the values of --nomerge/-n in
\* order of appearance as patterns and those of --ignore/-i as
\* ignorePatterns; with no pattern given and no help requested, patterns is
\* ["nomerge"]; caseSensitive and help are true only when their flag is
\* given.
OptionsFromFlags ==
    (CliParsed /\ ~cliOptions.threw) =>
        LET given == ValuesOf(denoArgs, NomergeFlags, 1)
            o == cliOptions.options
        IN /\ given # <<>> => o.patterns = given
           /\ (given = <<>> /\ ~FlagGiven(denoArgs, HelpFlags))
                 => o.patterns = <<Nomerge>>
           /\ o.ignorePatterns = ValuesOf(denoArgs, IgnoreFlags, 1)
           /\ o.caseSensitive = FlagGiven(denoArgs, CaseSensitiveFlags)
           /\ o.help = FlagGiven(denoArgs, HelpFlags)
           /\ (\A i \in 1..Len(denoArgs) : denoArgs[i] \notin CaseSensitiveFlags)
                 => ~o.caseSensitive
           /\ (\A i \in 1..Len(denoArgs) : denoArgs[i] \notin HelpFlags) => ~o.help

\* Two patterns were given, the second before the first in alphabetical
\* order, with an ignore rule between them.
WitnessTwoPatternsInOrder ==
    /\ CliParsed /\ ~cliOptions.threw
    /\ cliOptions.options.patterns = <<Str_y, Str_x>>
    /\ cliOptions.options.ignorePatterns = <<Str_x, Str_y>>

\* A token in flag position is not a recognised flag.
UnknownInFlagPosition(a) == \E i \in FlagPositions(a, 1) : a[i] \notin AllFlags

\* A flag that takes a value is the last token.
ValueFlagLast(a) ==
    Len(a) > 0 /\ Len(a) \in FlagPositions(a, 1) /\ a[Len(a)] \in ValueFlags

\* C23: parseCliArgs throws exactly when a token in flag position is not a
\* recognised flag or a flag that takes a value is the last token; the
\* message is "Unknown argument" with such a token, or "requires ..." with
\* that last flag.
ThrowsOnBadCommandLine ==
    CliParsed =>
        /\ cliOptions.threw <=>
              (UnknownInFlagPosition(denoArgs) \/ ValueFlagLast(denoArgs))
        /\ cliOptions.threw =>
              \/ /\ cliOptions.error.message = "Unknown argument"
                 /\ \E i \in FlagPositions(denoArgs, 1) :
                       denoArgs[i] \notin AllFlags /\ cliOptions.error.token = denoArgs[i]
              \/ /\ cliOptions.error.message \in
                        {"requires a pattern argument", "requires a directory path"}
                 /\ ValueFlagLast(denoArgs)
                 /\ cliOptions.error.token = denoArgs[Len(denoArgs)]
                 /\ (cliOptions.error.message = "requires a directory path")
                        <=> (denoArgs[Len(denoArgs)] \in DirectoryFlags)
        /\ cliOptions.threw => cliOptions.options = emptyOptions

\* A command line that ends with a flag whose value is missing, after a
\* complete flag and value, has thrown.
WitnessMissingValue ==
    /\ CliParsed /\ cliOptions.threw
    /\ Len(denoArgs) = 3
    /\ cliOptions.error.message = "requires a directory path"

----------------------------------------------------------------------------
(* Claims about main (specification SpecMain).                             *)

Exited == exitCode # {}

\* C24: a process that has exited has the code 0 or 1; the code is 0 exactly
\* when the run produced a result that passed or only help was asked for
\* (and then nothing was scanned), and 1 when the result did not pass or a
\* fatal error was raised; no run with a report or a match in the
\* description exits with 0.
ExitCodeFromVerdict ==
    Exited =>
        /\ exitCode \in {{0}, {1}}
        /\ exitCode = {0} <=> ((step = "done" /\ result.passed) \/ step = "help")
        /\ exitCode = {1} <=> ((step = "done" /\ ~result.passed) \/ step = "fatal")
        /\ step = "help" => (log = <<>> /\ fileMatches = <<>> /\ todo = <<>>)
        /\ (fileMatches # <<>> \/ foundInDescription) => exitCode = {1}

\* A run in CLI mode found a pattern in a file and exited with 1.
WitnessFailedRunExited ==
    /\ Exited /\ mode = "local" /\ step = "done"
    /\ fileMatches # <<>> /\ exitCode = {1}

----------------------------------------------------------------------------
(* Claims about the walk of a local tree (specification SpecRun).          *)

\* The path has a directory of the set among its segments: a segment that
\* is followed by a separator.
HasDirSegment(path, names) ==
    \E i \in 1..Len(path) : \E j \in i..(Len(path) - 1) :
        /\ i = 1 \/ path[i - 1] = "/"
        /\ path[j + 1] = "/"
        /\ SubSeq(path, i, j) \in names

\* The decisions taken on a path: one per visit of the file.
Visits(path) ==
    Cardinality({k \in 1..Len(log) :
                    /\ log[k].path = path
                    /\ log[k].event \in {"skip-config", "skip-ignored", "checking"}})

RunEnded == step \in {"done", "fatal"}

\* C25: in local-tree mode no file below a directory named .git or
\* node_modules is read, logged or reported, and once the walk has ended
\* every other regular file under the root has been visited exactly once.
SkippedDirsNeverEntered ==
    mode = "local" =>
        /\ \A k \in 1..Len(log) : ~HasDirSegment(log[k].path, SkippedDirs)
        /\ \A n \in 1..Len(fileMatches) :
              ~HasDirSegment(fileMatches[n].filename, SkippedDirs)
        /\ RunEnded =>
              \A n \in 1..Len(TreeFiles(<<>>, listing.entries)) :
                  Visits(TreeFiles(<<>>, listing.entries)[n].path) = 1

\* The same with the files counted only in a walk that returned: the part
\* of C25 that holds.
SkippedDirsNeverEnteredWalkReturned ==
    mode = "local" =>
        /\ \A k \in 1..Len(log) : ~HasDirSegment(log[k].path, SkippedDirs)
        /\ \A n \in 1..Len(fileMatches) :
              ~HasDirSegment(fileMatches[n].filename, SkippedDirs)
        /\ \A n \in 1..Len(TreeFiles(<<>>, listing.entries)) :
              Visits(TreeFiles(<<>>, listing.entries)[n].path) <= 1
        /\ step = "done" =>
              \A n \in 1..Len(TreeFiles(<<>>, listing.entries)) :
                  Visits(TreeFiles(<<>>, listing.entries)[n].path) = 1

\* C26: a run ends without a result only when the root directory cannot be
\* enumerated or the list of changed files cannot be fetched; with the
\* sources known, no failure during the scan stops the run.
FatalOnlyWithoutSources ==
    step = "fatal" => ~listing.ok

\* The part of C26 that holds: a run whose sources are known stops only at
\* a subdirectory that cannot be enumerated or at a path on which isIgnored
\* throws, never at a file that cannot be read.
FatalOnlyOutsideContent ==
    step = "fatal" => (~listing.ok \/ StoppedOutsideContent)

----------------------------------------------------------------------------
(* Claims about the rules of isIgnored as literal text (SpecIgnore).       *)

\* C27: isIgnored is total: for every path and every list of rules it
\* returns true or false and never throws.
IsIgnoredTotal ==
    "isIgnored" \in pc => (~ignored.threw /\ ignored.value \in BOOLEAN)

\* C28: a rule without "*" and "?" ignores exactly the path that is equal to
\* it once one leading "./" is stripped from both: every other character of
\* the rule stands for itself.
LiteralRuleIgnoresOnlyItself ==
    (OneRule /\ GlobLiteral(ignorePatterns[1])) => ignored = Returned(np = nr)

\* The part of C28 that holds: the same for the rules whose characters are
\* not special in a regular expression either.
PlainRuleIgnoresOnlyItself ==
    (OneRule /\ GlobLiteral(ignorePatterns[1]) /\ PlainString(ignorePatterns[1]))
        => ignored = Returned(np = nr)

----------------------------------------------------------------------------
(* Agreement of the two scanning operations (specification SpecScan).      *)

\* C29: on every text, pattern list and case flag, containsPattern returns
\* true exactly when findPatternMatches returns a list that is not empty
\* (and neither throws), which is the test both walkers report a file by.
ContainsIffMatchesFound ==
    ({"containsPattern", "findPatternMatches"} \subseteq pc) =>
        /\ ~contains.threw /\ ~matches.threw
        /\ contains.value <=> (Len(matches.value) > 0)

\* The same in a run (specification SpecRun): a file whose content was
\* scanned is reported exactly when containsPattern is true of its content.
ReportedWhenContainsPattern ==
    \A n \in 1..Len(Sources) :
        (Logged("found", Sources[n].path) \/ Logged("clean", Sources[n].path)) =>
            /\ Sources[n].content.ok
            /\ Reported(Sources[n].path)
                  <=> containsPattern(Sources[n].content.text, patterns,
                                      caseSensitive).value

\* Both operations were called on a text in which the first pattern of the
\* list does not occur and the second one occurs in another casing.
WitnessSecondPatternFound ==
    /\ {"containsPattern", "findPatternMatches"} \subseteq pc
    /\ Len(patterns) = 2 /\ ~caseSensitive
    /\ ~ContainsVariant(text, patterns[1])
    /\ ~Contains(text, patterns[2])
    /\ contains = Returned(TRUE)
    /\ Len(matches.value) = 1

----------------------------------------------------------------------------
(* Stripping code from a description (specification SpecDescription).      *)

\* C30: whenever the description check answers true, at least one pattern
\* occurs, under the case rule of the run, in the description as it was
\* written: removing code never joins the text on its two sides into an
\* occurrence.
StrippingNeverCreatesMatch ==
    (DescriptionChecked /\ foundInDescription) =>
        \E i \in 1..Len(patterns) : OccursIn(description.text, patterns[i], caseSensitive)

\* The part of C30 that holds: a match of the check is an occurrence of a
\* pattern in the description with its code removed.
MatchOccursInCleanedDescription ==
    (DescriptionChecked /\ foundInDescription) =>
        \E i \in 1..Len(patterns) :
            OccursIn(cleanedDescription(description.text), patterns[i], caseSensitive)

====
